---- MODULE Spec2Model ----
(***************************************************************************)
(* A model of cherry_picker (src/cherry_picker/cherry_picker.py): the      *)
(* workflow state kept in the repository-local Git config, the commands    *)
(* backport / continue_cherry_pick / abort_cherry_pick / status of class   *)
(* CherryPicker, and the pure helpers they use.                            *)
(*                                                                         *)
(* Text (branch names, shas) is a sequence of one-character strings, so    *)
(* that prefix tests, splitting and the version regular expression are     *)
(* computed character by character as the Python code computes them.       *)
(***************************************************************************)
EXTENDS Integers, Sequences, FiniteSets, TLC

\* ------------------------------------------------------------------ bounds

\* Longest list of target branches given to one command.
MaxBranches == 2
\* Number of commands (processes) started one after the other on the clone.
MaxCommands == 2

\* -------------------------------------------------------------------- text

\* The characters used by the model, in code-point order.
Chars == <<"-", ".", "0", "1", "2", "3", "4", "5", "6", "7", "8", "9",
           "a", "b", "c", "d", "e", "f", "g", "h", "i", "j", "k", "l", "m",
           "n", "o", "p", "q", "r", "s", "t", "u", "v", "w", "x", "y", "z">>

\* ord(c): position of a character in code-point order.
Ord(c) == CHOOSE i \in 1..Len(Chars) : Chars[i] = c

Digits == <<"0", "1", "2", "3", "4", "5", "6", "7", "8", "9">>

IsDigit(c) == \E i \in 1..Len(Digits) : Digits[i] = c

DigitVal(c) == (CHOOSE i \in 1..Len(Digits) : Digits[i] = c) - 1

IsHex(c) == IsDigit(c) \/ c \in {"a", "b", "c", "d", "e", "f"}

\* int(s) for a non-empty string of digits.
RECURSIVE ToInt(_)
ToInt(s) ==
    IF Len(s) = 0 THEN 0
    ELSE 10 * ToInt(SubSeq(s, 1, Len(s) - 1)) + DigitVal(s[Len(s)])

\* s.startswith(p)
StartsWith(s, p) == Len(s) >= Len(p) /\ SubSeq(s, 1, Len(p)) = p

\* A comparison under which no string is smaller than another.
StrLessNever(s, t) == FALSE

\* s < t for Python strings: code-point lexicographic order.
RECURSIVE StrLess(_, _)
StrLess(s, t) ==
    IF Len(t) = 0 THEN FALSE
    ELSE IF Len(s) = 0 THEN TRUE
    ELSE IF s[1] # t[1] THEN Ord(s[1]) < Ord(t[1])
    ELSE StrLess(Tail(s), Tail(t))

\* s < t for Python tuples of integers.
RECURSIVE IntsLess(_, _)
IntsLess(s, t) ==
    IF Len(t) = 0 THEN FALSE
    ELSE IF Len(s) = 0 THEN TRUE
    ELSE IF s[1] # t[1] THEN s[1] < t[1]
    ELSE IntsLess(Tail(s), Tail(t))

\* s.find(c, from): index of the first c at or after from, 0 when there is none.
FindChar(s, c, from) ==
    IF \E i \in from..Len(s) : s[i] = c
    THEN CHOOSE i \in from..Len(s) :
            s[i] = c /\ \A j \in from..(i - 1) : s[j] # c
    ELSE 0

\* s.split(c): the fields of s between occurrences of c.
RECURSIVE Split(_, _)
Split(s, c) ==
    LET i == FindChar(s, c, 1)
    IN  IF i = 0 THEN <<s>>
        ELSE <<SubSeq(s, 1, i - 1)>> \o Split(SubSeq(s, i + 1, Len(s)), c)

\* --------------------------------------------------- the version sort key

\* End of the maximal run of digits of s that starts at i (s[i] is a digit).
RECURSIVE DigitRunEnd(_, _)
DigitRunEnd(s, i) ==
    IF i < Len(s) /\ IsDigit(s[i + 1]) THEN DigitRunEnd(s, i + 1) ELSE i

\* Is s[e+1..] of the form "." digit ... ?
DotDigitAt(s, e) == e + 2 <= Len(s) /\ s[e + 1] = "." /\ IsDigit(s[e + 2])

\* Greedy (?:\.\d+)+ : the end of the last ".digits" group from e on.
RECURSIVE ExtendGroups(_, _)
ExtendGroups(s, e) ==
    IF DotDigitAt(s, e) THEN ExtendGroups(s, DigitRunEnd(s, e + 2)) ELSE e

\* Does \d+(?:\.\d+)+ match at position i of s?
VersionMatchesAt(s, i) == IsDigit(s[i]) /\ DotDigitAt(s, DigitRunEnd(s, i))

\* re.search(r"\d+(?:\.\d+)+", s): <<start, end>> of the leftmost match,
\* <<0, 0>> when there is none.
VersionSearch(s) ==
    IF \E i \in 1..Len(s) : VersionMatchesAt(s, i)
    THEN LET i == CHOOSE k \in 1..Len(s) :
                     VersionMatchesAt(s, k)
                     /\ \A j \in 1..(k - 1) : ~VersionMatchesAt(s, j)
         IN  <<i, ExtendGroups(s, DigitRunEnd(s, i))>>
    ELSE <<0, 0>>

\* (-int(x) for x in raw_version)
NegInts(fields) == [k \in 1..Len(fields) |-> 0 - ToInt(fields[k])]

\* A key that rejects a name without a version only when the configuration
\* requires one.
compute_version_sort_key_unless_required(config, branch) ==
    LET m == VersionSearch(branch)
    IN  IF m[1] # 0
        THEN [raises |-> FALSE, rank |-> 0,
              version |-> NegInts(Split(SubSeq(branch, m[1], m[2]), ".")),
              name |-> <<>>]
        ELSE IF config.require_version_in_branch_name
        THEN [raises |-> TRUE, rank |-> 2, version |-> <<>>, name |-> <<>>]
        ELSE [raises |-> FALSE, rank |-> 1, version |-> <<>>, name |-> branch]

\* compute_version_sort_key(config, branch).  The result is the key tuple,
\* (0, -v1, -v2, ...) or (1, branch), as a record; raises marks ValueError.
compute_version_sort_key(config, branch) ==
    LET m == VersionSearch(branch)
    IN  IF m[1] # 0
        THEN [raises |-> FALSE, rank |-> 0,
              version |-> NegInts(Split(SubSeq(branch, m[1], m[2]), ".")),
              name |-> <<>>]
        ELSE IF Len(branch) = 0 \/ config.require_version_in_branch_name
        THEN [raises |-> TRUE, rank |-> 2, version |-> <<>>, name |-> <<>>]
        ELSE [raises |-> FALSE, rank |-> 1, version |-> <<>>, name |-> branch]

\* k1 < k2 for two key tuples.
KeyLess(k1, k2) ==
    IF k1.rank # k2.rank THEN k1.rank < k2.rank
    ELSE IF k1.rank = 0 THEN IntsLess(k1.version, k2.version)
    ELSE StrLess(k1.name, k2.name)

\* Insert b into the sorted list l behind every element whose key is not
\* greater (sorted() is stable).
RECURSIVE InsertSorted(_, _, _)
InsertSorted(config, l, b) ==
    IF Len(l) = 0 THEN <<b>>
    ELSE IF KeyLess(compute_version_sort_key(config, b),
                    compute_version_sort_key(config, l[1]))
    THEN <<b>> \o l
    ELSE <<l[1]>> \o InsertSorted(config, Tail(l), b)

RECURSIVE SortedBy(_, _)
SortedBy(config, l) ==
    IF Len(l) = 0 THEN <<>>
    ELSE InsertSorted(config, SortedBy(config, SubSeq(l, 1, Len(l) - 1)), l[Len(l)])

\* Does CherryPicker.sorted_branches raise ValueError?
SortedBranchesRaises(config, branches) ==
    \E i \in 1..Len(branches) : compute_version_sort_key(config, branches[i]).raises

\* The branches in the order of the command line.
branches_as_given(config, branches) == branches

\* CherryPicker.sorted_branches
sorted_branches(config, branches) == SortedBy(config, branches)

\* ------------------------------------------------------------------ names

main == <<"m", "a", "i", "n">>
topic == <<"f", "i", "x">>
b38 == <<"3", ".", "8">>
b310 == <<"3", ".", "1", "0">>
dev == <<"d", "e", "v">>

\* The target branches a command line may name.
Targets == {b38, b310, dev}

\* The commit given on the command line (longer than the 7 characters that
\* go into the branch name).
CommitSha == <<"a", "b", "c", "1", "2", "3", "4", "5">>

\* A config path "<revision>:<file>" is a record; rev is {} for a path
\* without ":".  An explicit --config-path, already carrying its revision.
ExplicitConfigPath == [rev |-> {CommitSha}, file |-> "some.toml"]

\* A branch whose tree holds the conventional .cherry_picker.toml; the
\* other revisions of the model hold none.
configured == <<"c", "f", "g">>

backport_prefix == <<"b", "a", "c", "k", "p", "o", "r", "t", "-">>

\* s[:n]
Take(s, n) == SubSeq(s, 1, IF Len(s) < n THEN Len(s) ELSE n)

\* CherryPicker.get_cherry_pick_branch
get_cherry_pick_branch(commit_sha1, maint_branch) ==
    backport_prefix \o Take(commit_sha1, 7) \o <<"-">> \o maint_branch

\* DEFAULT_CONFIG, the keys the workflow reads.
DEFAULT_CONFIG ==
    [default_branch |-> main,
     require_version_in_branch_name |-> TRUE,
     fix_commit_msg |-> TRUE]

\* ----------------------------------------------- the workflow state store

WORKFLOW_STATES ==
    {"FETCHING_UPSTREAM", "FETCHED_UPSTREAM",
     "CHECKING_OUT_DEFAULT_BRANCH", "CHECKED_OUT_DEFAULT_BRANCH",
     "CHECKING_OUT_PREVIOUS_BRANCH", "CHECKED_OUT_PREVIOUS_BRANCH",
     "PUSHING_TO_REMOTE", "PUSHED_TO_REMOTE", "PUSHING_TO_REMOTE_FAILED",
     "PR_CREATING", "PR_CREATING_FAILED", "PR_OPENING",
     "REMOVING_BACKPORT_BRANCH", "REMOVING_BACKPORT_BRANCH_FAILED",
     "REMOVED_BACKPORT_BRANCH",
     "BACKPORT_STARTING", "BACKPORT_LOOPING", "BACKPORT_LOOP_START",
     "BACKPORT_LOOP_END",
     "ABORTING", "ABORTED", "ABORTING_FAILED",
     "CONTINUATION_STARTED", "BACKPORTING_CONTINUATION_SUCCEED",
     "CONTINUATION_FAILED",
     "BACKPORT_PAUSED",
     "UNSET"}

\* Tokens no version of this enum knows (another tool version, a typo; the
\* tokens are case-sensitive).
UnknownTokens == {"invalid_state", "backport_paused"}

\* CherryPicker.ALLOWED_STATES
ALLOWED_STATES == {"BACKPORT_PAUSED", "UNSET"}

\* The cherry-picker section of the local Git config.  A key holds the empty
\* set when it is not set, and {value} when it is.
CfgKeys == {"state", "previous_branch", "config_path"}

EmptyCfg == [state |-> {}, previous_branch |-> {}, config_path |-> {}]

\* The value of a key that is set.
Val(o) == CHOOSE v \in o : TRUE

\* load_val_from_git_cfg: {} stands for None.
load_val_from_git_cfg(cfg, key) == cfg[key]

\* save_cfg_vals_to_git_cfg(key=val)
save_cfg_vals_to_git_cfg(cfg, key, val) == [cfg EXCEPT ![key] = {val}]

\* git config --unset-all exits non-zero for a key that is not set, and
\* check_call turns that into CalledProcessError.
WipeRaises(cfg, key) == cfg[key] = {}

\* wipe_cfg_vals_from_git_cfg(key), when it does not raise.
wipe_cfg_vals_from_git_cfg(cfg, key) == [cfg EXCEPT ![key] = {}]

\* set_state(state)
set_state(cfg, state) == save_cfg_vals_to_git_cfg(cfg, "state", state)

\* A reset that leaves the config path in the store.
reset_stored_config_ref_kept(cfg) == cfg

\* reset_stored_config_ref(): the CalledProcessError is swallowed.
reset_stored_config_ref(cfg) ==
    IF WipeRaises(cfg, "config_path") THEN cfg
    ELSE wipe_cfg_vals_from_git_cfg(cfg, "config_path")

\* get_state that falls back to UNSET for a token it does not know.
get_state_lenient(cfg) ==
    LET v == load_val_from_git_cfg(cfg, "state")
    IN  [raises |-> FALSE,
         name |-> IF v = {} \/ Val(v) \notin WORKFLOW_STATES THEN "UNSET" ELSE Val(v)]

\* get_state_from_string(load_val_from_git_cfg("state") or "UNSET"):
\* raises marks the KeyError of an unknown member, name is the token.
get_state(cfg) ==
    LET v == load_val_from_git_cfg(cfg, "state")
        str == IF v = {} \/ v = {""} THEN "UNSET" ELSE Val(v)
    IN  [raises |-> str \notin WORKFLOW_STATES, name |-> str]

\* CherryPicker.get_state_and_verify: raises marks the ValueError.
get_state_and_verify(cfg) ==
    LET st == get_state(cfg)
    IN  [raises |-> st.raises \/ st.name \notin ALLOWED_STATES, state |-> st.name]

\* CherryPicker.set_paused_state, first write: the config path, when one was
\* chosen.
SavePausedConfigPath(cfg, chosen_config_path) ==
    IF chosen_config_path # {}
    THEN save_cfg_vals_to_git_cfg(cfg, "config_path", Val(chosen_config_path))
    ELSE cfg

\* find_config(revision): the conventional file of the revision, None
\* when git cat-file finds no blob there.
find_config(revision) ==
    IF revision = configured
    THEN {[rev |-> {revision}, file |-> ".cherry_picker.toml"]}
    ELSE {}

\* A load_config that does not look into the store.
load_config_unsaved(cfg, path, head_sha) ==
    IF path = {} THEN find_config(head_sha)
    ELSE IF Val(path).rev = {} THEN {[Val(path) EXCEPT !.rev = {head_sha}]}
    ELSE path

\* load_config(path), the chosen path: an explicit path wins, then the stored
\* config_path, then find_config at HEAD; a path without ":" is put at HEAD.
\* head_sha is get_sha1_from("HEAD").
load_config(cfg, path, head_sha) ==
    LET saved_config_path == load_val_from_git_cfg(cfg, "config_path")
        p == IF path = {} /\ saved_config_path # {} THEN saved_config_path ELSE path
    IN  IF p = {} THEN find_config(head_sha)
        ELSE IF Val(p).rev = {} THEN {[Val(p) EXCEPT !.rev = {head_sha}]}
        ELSE p

\* ------------------------------------------------------------------ state

VARIABLES
    gitcfg,            \* the cherry-picker section of the local Git config
    cur,               \* the checked-out branch
    local_branches,    \* the local branches of the clone
    cherry_pick_head,  \* CHERRY_PICK_HEAD exists: a replay is in progress
    mirror,            \* remote.origin.mirror is true
    config,            \* the effective configuration
    ncmds,             \* commands started so far
    cmd,               \* the running command
    self,              \* the CherryPicker object's fields
    gh_auth,           \* the GH_AUTH environment variable is set
    other,             \* position of a second cherry_picker process on the clone
    pc,                \* position of the running command
    stack,             \* return positions of the calls in progress
    exc,               \* the exception to re-raise once the state is saved
    todo,              \* self.sorted_branches, as iterated by backport
    idx,               \* index into todo of the branch being processed
    maint_branch,      \* the target (base) branch being processed
    cherry_pick_branch,\* the backport branch being processed
    commits,           \* continue: number of commits since the base branch
    commit_message,    \* the rewritten message at hand; what push_to_remote is given
    outcome,           \* how the last command ended: "ok" or the exception
    ops,               \* the mutating VCS / hosting commands of this command
    start              \* the store and branch when the command started

vars == <<gitcfg, cur, local_branches, cherry_pick_head, mirror, config, other, ncmds,
          cmd, self, gh_auth, pc, stack, exc, todo, idx, maint_branch,
          cherry_pick_branch, commits, commit_message, outcome, ops, start>>

repo == <<cur, local_branches, cherry_pick_head>>
env == <<mirror, config, ncmds, cmd, self, gh_auth, start, other>>
loop == <<todo, idx, maint_branch, cherry_pick_branch, commits, commit_message>>

\* Lists of at most n target branches, each named once.
RECURSIVE BranchLists(_)
BranchLists(n) ==
    IF n = 0 THEN {<<>>}
    ELSE LET shorter == BranchLists(n - 1)
         IN  shorter \cup
             {Append(l, b) : <<l, b>> \in
                  {x \in shorter \X Targets : \A i \in 1..Len(x[1]) : x[1][i] # x[2]}}

\* No second process runs.
NoOther == "none"

NoSelf ==
    [commit_sha1 |-> <<>>, branches |-> <<>>, dry_run |-> FALSE, push |-> TRUE,
     auto_pr |-> TRUE, chosen_config_path |-> {}]

Init ==
    /\ gitcfg \in {[EmptyCfg EXCEPT !.state = t] :
                      t \in {{}} \cup {{u} : u \in UnknownTokens}}
    /\ cur = topic
    /\ local_branches = {main, topic}
    /\ cherry_pick_head = FALSE
    /\ mirror \in BOOLEAN
    /\ config = DEFAULT_CONFIG
    /\ ncmds = 0
    /\ cmd = "none"
    /\ self = NoSelf
    /\ gh_auth = FALSE
    /\ other = NoOther
    /\ pc = "idle"
    /\ stack = <<>>
    /\ exc = "none"
    /\ todo = <<>>
    /\ idx = 0
    /\ maint_branch = <<>>
    /\ cherry_pick_branch = <<>>
    /\ commits = 0
    /\ commit_message = <<>>
    /\ outcome = "none"
    /\ ops = <<>>
    /\ start = [gitcfg |-> gitcfg, cur |-> cur]

\* One logged command: what was invoked, on what, and whether it succeeded.
Op(name, arg, ok) == [op |-> name, arg |-> arg, ok |-> ok]

\* The command ends: it returns ("ok") or raises.
Ends(how) ==
    /\ pc' = "done"
    /\ outcome' = how
    /\ stack' = <<>>
    /\ exc' = "none"

\* Return to the caller.
Return ==
    /\ pc' = Head(stack)
    /\ stack' = Tail(stack)

\* Call sub at position to, coming back to ret.
Call(to, ret) ==
    /\ pc' = to
    /\ stack' = <<ret>> \o stack

\* ------------------------------------------------- cherry_pick_cli, __init__

\* --push/--no-push and --auto-pr/--no-auto-pr; auto_pr is read only after a
\* push, so --no-push is taken with the default of auto_pr.
PushModes == {<<TRUE, TRUE>>, <<TRUE, FALSE>>, <<FALSE, TRUE>>}

\* The arguments a command line can carry.  Only a backport takes a commit
\* and target branches; --push and --auto-pr are read by backport and
\* continue_cherry_pick alone.
Selves(c, dry_runs) ==
    IF c = "backport"
    THEN {[commit_sha1 |-> CommitSha, branches |-> l, dry_run |-> d, push |-> m[1],
           auto_pr |-> m[2], chosen_config_path |-> {}] :
             l \in BranchLists(MaxBranches), d \in dry_runs, m \in PushModes}
    ELSE IF c = "continue"
    THEN {[NoSelf EXCEPT !.dry_run = d, !.push = m[1], !.auto_pr = m[2]] :
             d \in dry_runs, m \in PushModes}
    ELSE {[NoSelf EXCEPT !.dry_run = d] : d \in dry_runs}

\* cherry_pick_cli: a command is started on the clone; load_config chooses
\* the config path and the CherryPicker is about to be constructed.
StartCommand(dry_runs) ==
    /\ pc = "idle"
    /\ ncmds < MaxCommands
    /\ \E c \in {"backport", "continue", "abort", "status"} :
       \E s \in Selves(c, dry_runs) :
       \E path \in {{}, {ExplicitConfigPath}} :
       \E token \in BOOLEAN :
          /\ cmd' = c
          /\ self' = [s EXCEPT !.chosen_config_path = load_config(gitcfg, path, cur)]
          /\ gh_auth' = (token /\ s.auto_pr /\ s.push /\ c \in {"backport", "continue"})
    /\ ncmds' = ncmds + 1
    /\ pc' = "init"
    /\ outcome' = "none"
    /\ ops' = <<>>
    /\ start' = [gitcfg |-> gitcfg, cur |-> cur]
    /\ todo' = <<>>
    /\ idx' = 0
    /\ maint_branch' = <<>>
    /\ cherry_pick_branch' = <<>>
    /\ commits' = 0
    /\ commit_message' = <<>>
    /\ UNCHANGED <<gitcfg, repo, mirror, config, other, stack, exc>>

\* CherryPicker.__init__ / check_repo: validate_sha(config["check_sha"]) and
\* get_state_and_verify(); a ValueError of either becomes
\* InvalidRepoException.
Construct ==
    /\ pc = "init"
    /\ \E check_sha_found \in BOOLEAN :
          IF ~check_sha_found \/ get_state_and_verify(gitcfg).raises
          THEN Ends("InvalidRepoException")
          ELSE /\ pc' = cmd
               /\ UNCHANGED <<stack, exc, outcome>>
    /\ UNCHANGED <<gitcfg, repo, env, loop, ops>>

\* ------------------------------------------------------------ backport()

\* A backport that writes BACKPORT_STARTING before it looks at the branches.
BackportStateFirst ==
    /\ pc = "backport"
    /\ gitcfg' = set_state(gitcfg, "BACKPORT_STARTING")
    /\ IF Len(self.branches) = 0
       THEN Ends("UsageError")
       ELSE /\ pc' = "fetch_upstream"
            /\ UNCHANGED <<stack, exc, outcome>>
    /\ UNCHANGED <<repo, env, loop, ops>>

\* backport: the usage check and set_state(BACKPORT_STARTING).
Backport ==
    /\ pc = "backport"
    /\ IF Len(self.branches) = 0
       THEN /\ Ends("UsageError")
            /\ UNCHANGED gitcfg
       ELSE /\ gitcfg' = set_state(gitcfg, "BACKPORT_STARTING")
            /\ pc' = "fetch_upstream"
            /\ UNCHANGED <<stack, exc, outcome>>
    /\ UNCHANGED <<repo, env, loop, ops>>

\* A fetch_upstream that does not write its start state.
FetchUpstreamUnannounced ==
    /\ pc = "fetch_upstream"
    /\ pc' = "upstream"
    /\ UNCHANGED <<gitcfg, repo, env, loop, ops, stack, exc, outcome>>

\* fetch_upstream: set_state(FETCHING_UPSTREAM).
FetchUpstream ==
    /\ pc = "fetch_upstream"
    /\ gitcfg' = set_state(gitcfg, "FETCHING_UPSTREAM")
    /\ pc' = "upstream"
    /\ UNCHANGED <<repo, env, loop, ops, stack, exc, outcome>>

\* The upstream property: git remote get-url upstream, then origin; with
\* neither remote it raises ValueError.  The lookup runs for real in a dry
\* run too.
Upstream ==
    /\ pc = "upstream"
    /\ \E found \in BOOLEAN :
          IF found
          THEN pc' = "git_fetch" /\ UNCHANGED <<stack, exc, outcome>>
          ELSE Ends("ValueError")
    /\ UNCHANGED <<gitcfg, repo, env, loop, ops>>

\* fetch_upstream: git fetch, then set_state(FETCHED_UPSTREAM); a failure of
\* the command propagates as CalledProcessError.
GitFetch ==
    /\ pc = "git_fetch"
    /\ \E ok \in BOOLEAN :
          /\ self.dry_run => ok
          /\ ops' = IF self.dry_run THEN ops ELSE Append(ops, Op("fetch", <<>>, ok))
          /\ IF ok
             THEN /\ gitcfg' = set_state(gitcfg, "FETCHED_UPSTREAM")
                  /\ pc' = "remember_previous_branch"
                  /\ UNCHANGED <<stack, exc, outcome>>
             ELSE /\ Ends("CalledProcessError")
                  /\ UNCHANGED gitcfg
    /\ UNCHANGED <<repo, env, loop>>

\* A remember_previous_branch that stores nothing.
RememberPreviousBranchForgets ==
    /\ pc = "remember_previous_branch"
    /\ pc' = "looping"
    /\ UNCHANGED <<gitcfg, repo, env, loop, ops, stack, exc, outcome>>

\* remember_previous_branch: the current branch goes into the Git config.
RememberPreviousBranch ==
    /\ pc = "remember_previous_branch"
    /\ gitcfg' = save_cfg_vals_to_git_cfg(gitcfg, "previous_branch", cur)
    /\ pc' = "looping"
    /\ UNCHANGED <<repo, env, loop, ops, stack, exc, outcome>>

\* backport: set_state(BACKPORT_LOOPING) and the evaluation of
\* self.sorted_branches, which raises ValueError for a rejected name.
BackportLooping ==
    /\ pc = "looping"
    /\ gitcfg' = set_state(gitcfg, "BACKPORT_LOOPING")
    /\ IF SortedBranchesRaises(config, self.branches)
       THEN /\ Ends("ValueError")
            /\ UNCHANGED loop
       ELSE /\ todo' = sorted_branches(config, self.branches)
            /\ idx' = 1
            /\ pc' = "loop_start"
            /\ UNCHANGED <<maint_branch, cherry_pick_branch, commits, commit_message, stack, exc,
                           outcome>>
    /\ UNCHANGED <<repo, env, ops>>

\* Top of the loop body: set_state(BACKPORT_LOOP_START) and the name of the
\* cherry-pick branch.
LoopStart ==
    /\ pc = "loop_start"
    /\ gitcfg' = set_state(gitcfg, "BACKPORT_LOOP_START")
    /\ maint_branch' = todo[idx]
    /\ cherry_pick_branch' = get_cherry_pick_branch(self.commit_sha1, todo[idx])
    /\ pc' = "checkout_create"
    /\ UNCHANGED <<repo, env, todo, idx, commits, commit_message, ops, stack, exc, outcome>>

\* checkout_branch(maint_branch, create_branch=True): git checkout -b, which
\* cannot succeed when the branch exists, then unset_upstream, whose failure
\* is only echoed.  On BranchCheckoutException backport calls
\* checkout_default_branch, resets the config reference and the state, and
\* raises again.
CheckoutCreate ==
    /\ pc = "checkout_create"
    /\ IF self.dry_run
       THEN /\ pc' = "cherry_pick"
            /\ UNCHANGED <<repo, ops, stack, exc>>
       ELSE \E ok \in BOOLEAN :
            /\ ok => cherry_pick_branch \notin local_branches
            /\ IF ok
               THEN /\ local_branches' = local_branches \cup {cherry_pick_branch}
                    /\ cur' = cherry_pick_branch
                    /\ ops' = ops \o <<Op("checkout_b", cherry_pick_branch, TRUE),
                                       Op("unset_upstream", cherry_pick_branch, TRUE)>>
                    /\ pc' = "cherry_pick"
                    /\ UNCHANGED <<cherry_pick_head, stack, exc>>
               ELSE /\ ops' = Append(ops, Op("checkout_b", cherry_pick_branch, FALSE))
                    /\ exc' = "BranchCheckoutException"
                    /\ Call("checkout_default_branch", "reset_config_ref")
                    /\ UNCHANGED repo
    /\ UNCHANGED <<gitcfg, env, loop, outcome>>

\* A continuation that goes from the cleanup straight to the resets.
AfterCleanupStraightToResets ==
    CASE cmd = "backport" -> "loop_end"
      [] OTHER -> "reset_previous_branch"

\* Where a command goes on when cleanup_branch returns.
AfterCleanup ==
    CASE cmd = "backport" -> "loop_end"
      [] cmd = "continue" -> "continuation_succeed"
      [] OTHER -> "reset_previous_branch"

\* checkout_default_branch: set_state(CHECKING_OUT_DEFAULT_BRANCH).
CheckoutDefaultBranch ==
    /\ pc = "checkout_default_branch"
    /\ gitcfg' = set_state(gitcfg, "CHECKING_OUT_DEFAULT_BRANCH")
    /\ pc' = "git_checkout_default"
    /\ UNCHANGED <<repo, env, loop, ops, stack, exc, outcome>>

\* checkout_default_branch: git checkout <default branch>, then
\* set_state(CHECKED_OUT_DEFAULT_BRANCH).  A BranchCheckoutException is
\* caught by cleanup_branch when the call came from there
\* (REMOVING_BACKPORT_BRANCH_FAILED, return); raised inside the except
\* block of backport it ends the command.
GitCheckoutDefault ==
    /\ pc = "git_checkout_default"
    /\ \E ok \in BOOLEAN :
          /\ self.dry_run => ok
          /\ (ok /\ ~self.dry_run) => config.default_branch \in local_branches
          /\ ops' = IF self.dry_run THEN ops
                    ELSE Append(ops, Op("checkout", config.default_branch, ok))
          /\ IF ok
             THEN /\ cur' = IF self.dry_run THEN cur ELSE config.default_branch
                  /\ gitcfg' = set_state(gitcfg, "CHECKED_OUT_DEFAULT_BRANCH")
                  /\ Return
                  /\ UNCHANGED <<exc, outcome>>
             ELSE /\ UNCHANGED cur
                  /\ IF Head(stack) = "delete_branch"
                     THEN /\ gitcfg' = set_state(gitcfg, "REMOVING_BACKPORT_BRANCH_FAILED")
                          /\ pc' = AfterCleanup
                          /\ stack' = Tail(stack)
                          /\ UNCHANGED <<exc, outcome>>
                     ELSE /\ Ends("BranchCheckoutException")
                          /\ UNCHANGED gitcfg
    /\ UNCHANGED <<local_branches, cherry_pick_head, env, loop>>

\* cherry_pick: git cherry-pick -x; a failure (a conflict leaves
\* CHERRY_PICK_HEAD behind) is raised as CherryPickException, which the
\* caller handles at position handler.
CherryPickHandledAt(handler) ==
    /\ pc = "cherry_pick"
    /\ IF self.dry_run
       THEN /\ pc' = "get_updated_commit_message"
            /\ UNCHANGED <<repo, ops, exc>>
       ELSE \E ok \in BOOLEAN :
            /\ ok => ~cherry_pick_head
            /\ ops' = Append(ops, Op("cherry_pick", cherry_pick_branch, ok))
            /\ IF ok
               THEN /\ pc' = "get_updated_commit_message"
                    /\ UNCHANGED <<repo, exc>>
               ELSE /\ \E conflict \in BOOLEAN :
                          cherry_pick_head' = (cherry_pick_head \/ conflict)
                    /\ exc' = "CherryPickException"
                    /\ pc' = handler
                    /\ UNCHANGED <<cur, local_branches>>
    /\ UNCHANGED <<gitcfg, env, loop, stack, outcome>>

\* A backport that treats a failed replay like a failed checkout: it resets
\* the state and raises.
CherryPickFatal == CherryPickHandledAt("reset_config_ref")

\* cherry_pick inside backport: on CherryPickException backport saves the
\* paused state (set_paused_state) and raises again.
CherryPick == CherryPickHandledAt("set_paused_state")

\* ---------------------------------------------------------- commit messages

\* \w of the regular expressions: letters, digits and the underscore.
IsWord(c) ==
    \/ IsDigit(c)
    \/ c = "_"
    \/ \E i \in 13..Len(Chars) : Chars[i] = c
    \/ c \in {"A", "C", "G", "H"}

\* str.strip(): white space removed at both ends.
RECURSIVE Strip(_)
Strip(s) ==
    IF Len(s) = 0 THEN s
    ELSE IF s[1] \in {" ", "\n"} THEN Strip(Tail(s))
    ELSE IF s[Len(s)] \in {" ", "\n"} THEN Strip(SubSeq(s, 1, Len(s) - 1))
    ELSE s

\* \b after the first p characters of s: a word character on exactly one
\* side.
WordBoundary(s, p) ==
    (p >= 1 /\ IsWord(s[p])) # (p < Len(s) /\ IsWord(s[p + 1]))

\* The pattern without the \b that closes its lookahead.
NumberSignMatchesAnyEnd(s, i) ==
    /\ s[i] = "#"
    /\ ~WordBoundary(s, i - 1)
    /\ i + 1 <= Len(s) /\ IsDigit(s[i + 1]) /\ s[i + 1] # "0"
    /\ \E k \in 4..(Len(s) - i - 1) :
          \A j \in (i + 2)..(i + 1 + k) : IsDigit(s[j])

\* Does \B#(?=[1-9][0-9]{4,}\b) match at position i of s?  The lookahead
\* may stop after any k >= 4 further digits where a word boundary follows.
NumberSignMatches(s, i) ==
    /\ s[i] = "#"
    /\ ~WordBoundary(s, i - 1)
    /\ i + 1 <= Len(s) /\ IsDigit(s[i + 1]) /\ s[i + 1] # "0"
    /\ \E k \in 4..(Len(s) - i - 1) :
          /\ \A j \in (i + 2)..(i + 1 + k) : IsDigit(s[j])
          /\ WordBoundary(s, i + 1 + k)

\* re.sub(r"\B#(?=[1-9][0-9]{4,}\b)", "GH-", s), from position i on.
RECURSIVE ReSubFrom(_, _)
ReSubFrom(s, i) ==
    IF i > Len(s) THEN <<>>
    ELSE (IF NumberSignMatches(s, i) THEN <<"G", "H", "-">> ELSE <<s[i]>>)
            \o ReSubFrom(s, i + 1)

\* get_commit_message for the output raw of git show -s --format=%B.
get_commit_message(cfg, raw) ==
    IF cfg.fix_commit_msg THEN ReSubFrom(Strip(raw), 1) ELSE Strip(raw)

\* remove_commit_prefix: every leading "[X.Y] " is removed.
RECURSIVE remove_commit_prefix(_)
remove_commit_prefix(s) ==
    IF Len(s) >= 2 /\ s[1] = "[" /\ VersionMatchesAt(s, 2)
    THEN LET e == ExtendGroups(s, DigitRunEnd(s, 2))
             sp == CHOOSE n \in 0..Len(s) :
                      /\ \A j \in (e + 2)..(e + 1 + n) : j <= Len(s) /\ s[j] = " "
                      /\ ~(e + 2 + n <= Len(s) /\ s[e + 2 + n] = " ")
         IN  IF e + 1 <= Len(s) /\ s[e + 1] = "]"
             THEN remove_commit_prefix(SubSeq(s, e + 2 + sp, Len(s)))
             ELSE s
    ELSE s

\* normalize_commit_message: the title is the text before the first
\* newline, the body what follows it without its leading newlines.
RECURSIVE LStripNewlines(_)
LStripNewlines(s) ==
    IF Len(s) > 0 /\ s[1] = "\n" THEN LStripNewlines(Tail(s)) ELSE s

normalize_commit_message(m) ==
    LET i == FindChar(m, "\n", 1)
    IN  IF i = 0 THEN [title |-> m, body |-> <<>>]
        ELSE [title |-> SubSeq(m, 1, i - 1),
              body |-> LStripNewlines(SubSeq(m, i + 1, Len(m)))]

\* What git show -s --format=%B prints for the source commit.
SourceMessage ==
    <<"f", "i", "x", " ", "#", "1", "2", "3", "4", "5", "\n", "\n",
      "m", "o", "r", "e", "\n">>

\* The lines that get_updated_commit_message puts after a message without
\* trailers: the cherry-pick information, then the Co-authored-by trailer
\* of git interpret-trailers for the author a.
PickedTrailers(sha) ==
    <<"\n", "(", "c", "h", "e", "r", "r", "y", " ", "p", "i", "c", "k", "e", "d", " ",
      "f", "r", "o", "m", " ", "c", "o", "m", "m", "i", "t", " ">> \o sha
    \o <<")", "\n", "\n", "C", "o", "-", "a", "u", "t", "h", "o", "r", "e", "d", "-",
         "b", "y", ":", " ", "a">>

\* get_updated_commit_message when its commands succeed; base_branch is
\* what get_base_branch returned for the cherry-pick branch.
get_updated_commit_message(cfg, prefix_commit, sha, base_branch) ==
    LET message == get_commit_message(cfg, SourceMessage)
        prefixed == IF prefix_commit
                    THEN <<"[">> \o base_branch \o <<"]", " ">>
                            \o remove_commit_prefix(message)
                    ELSE message
    IN  prefixed \o PickedTrailers(sha)

\* prefix_commit=True of CherryPicker.__init__; cherry_pick_cli never passes
\* another value.
prefix_commit_default == TRUE

\* A continue_cherry_pick that amends whatever the number of commits.
AfterMessageAlwaysAmend == "amend"

\* Where the rewritten message goes: backport amends the commit of the
\* cherry-pick; continue_cherry_pick amends when len(commits) == 1 and
\* makes a new commit otherwise.
AfterMessage == IF cmd = "backport" \/ commits = 1 THEN "amend" ELSE "commit"

\* A backport that pauses when the message cannot be rewritten.
AfterMessageCrashPauses == "set_paused_state"

\* backport, except subprocess.CalledProcessError: the output and the exit
\* message are echoed and the loop body goes on to set_state(BACKPORT_LOOP_END).
AfterMessageCrash == "loop_end"

\* What get_updated_commit_message can end with: the message, or
\* CherryPickException (git show fails in get_commit_message), ValueError
\* (get_base_branch rejects the sha) or CalledProcessError (git log of the
\* author, git interpret-trailers).
MessageResults == {"ok", "CherryPickException", "ValueError", "CalledProcessError"}

\* get_updated_commit_message, called by amend_commit_message or directly;
\* its git commands run in a dry run too and are logged as one step.
\* backport pauses on CherryPickException, only reports CalledProcessError
\* and goes on with the next branch, and lets ValueError through;
\* continue_cherry_pick catches nothing.
GetUpdatedCommitMessage ==
    /\ pc = "get_updated_commit_message"
    /\ \E r \in MessageResults :
          /\ ops' = Append(ops, Op("message", cherry_pick_branch, r = "ok"))
          /\ IF r = "ok"
             THEN /\ pc' = AfterMessage
                  /\ commit_message' =
                        get_updated_commit_message(config, prefix_commit_default,
                                                   self.commit_sha1, maint_branch)
                  /\ UNCHANGED <<stack, exc, outcome>>
             ELSE IF cmd = "backport" /\ r = "CherryPickException"
             THEN /\ exc' = r
                  /\ pc' = "set_paused_state"
                  /\ UNCHANGED <<commit_message, stack, outcome>>
             ELSE IF cmd = "backport" /\ r = "CalledProcessError"
             THEN /\ pc' = AfterMessageCrash
                  /\ UNCHANGED <<commit_message, stack, exc, outcome>>
             ELSE Ends(r) /\ UNCHANGED commit_message
    /\ UNCHANGED <<gitcfg, repo, env, todo, idx, maint_branch, cherry_pick_branch,
                   commits>>

\* A tail that pushes whatever --push/--no-push says.
AfterCommitAlwaysPush == "push_to_remote"

\* After the commit: push_to_remote when pushing, else pause_after_committing.
AfterCommit == IF self.push THEN "push_to_remote" ELSE "set_paused_state"

\* amend_commit_message: git commit --amend; a failure is only echoed.
Amend ==
    /\ pc = "amend"
    /\ IF self.dry_run
       THEN UNCHANGED ops
       ELSE \E ok \in BOOLEAN :
               ops' = Append(ops, Op("amend", cherry_pick_branch, ok))
    /\ pc' = AfterCommit
    /\ UNCHANGED <<gitcfg, repo, env, loop, stack, exc, outcome>>

\* continue_cherry_pick with other than one commit: git commit -a
\* --allow-empty; a failure propagates.
Commit ==
    /\ pc = "commit"
    /\ \E ok \in BOOLEAN :
          /\ self.dry_run => ok
          /\ ops' = IF self.dry_run THEN ops
                    ELSE Append(ops, Op("commit", cherry_pick_branch, ok))
          /\ IF ok
             THEN pc' = AfterCommit /\ UNCHANGED <<stack, exc, outcome>>
             ELSE Ends("CalledProcessError")
    /\ UNCHANGED <<gitcfg, repo, env, loop>>

\* set_paused_state, first write: save_cfg_vals_to_git_cfg(config_path=...).
SetPausedState ==
    /\ pc = "set_paused_state"
    /\ gitcfg' = SavePausedConfigPath(gitcfg, self.chosen_config_path)
    /\ pc' = "set_state_paused"
    /\ UNCHANGED <<repo, env, loop, ops, stack, exc, outcome>>

\* A pause that goes back to the branch the command was started on.
SetStatePausedOffBranch ==
    /\ pc = "set_state_paused"
    /\ gitcfg' = set_state(gitcfg, "BACKPORT_PAUSED")
    /\ Ends(IF exc # "none" THEN exc ELSE "ok")
    /\ cur' = start.cur
    /\ UNCHANGED <<local_branches, cherry_pick_head, env, loop, ops>>

\* set_paused_state, second write: set_state(BACKPORT_PAUSED); then the
\* caller raises the exception again, or returns (pause_after_committing).
SetStatePaused ==
    /\ pc = "set_state_paused"
    /\ gitcfg' = set_state(gitcfg, "BACKPORT_PAUSED")
    /\ Ends(IF exc # "none" THEN exc ELSE "ok")
    /\ UNCHANGED <<repo, env, loop, ops>>

\* ------------------------------------------------------- push and publish

\* The commit_message push_to_remote is called with: backport passes the
\* message amend_commit_message returned, continue_cherry_pick passes
\* nothing and the parameter takes its default "".
PushedMessage == IF cmd = "backport" THEN commit_message ELSE <<>>

\* create_gh_pr: the title and the body of the request posted to the API.
PrData ==
    LET n == normalize_commit_message(commit_message)
    IN  [title |-> IF ~prefix_commit_default
                   THEN <<"[">> \o maint_branch \o <<"]", " ">>
                           \o remove_commit_prefix(n.title)
                   ELSE n.title,
         body |-> n.body,
         head |-> cherry_pick_branch,
         base |-> maint_branch]

\* push_to_remote: set_state(PUSHING_TO_REMOTE).
PushToRemote ==
    /\ pc = "push_to_remote"
    /\ gitcfg' = set_state(gitcfg, "PUSHING_TO_REMOTE")
    /\ commit_message' = PushedMessage
    /\ pc' = "git_push"
    /\ UNCHANGED <<repo, env, todo, idx, maint_branch, cherry_pick_branch, commits, ops,
                   stack, exc, outcome>>

\* A push whose failure does not keep push_to_remote from publishing.
GitPushThenPublish ==
    /\ pc = "git_push"
    /\ \E ok \in BOOLEAN :
          /\ self.dry_run => ok
          /\ ops' = IF self.dry_run THEN ops
                    ELSE Append(ops, Op("push", cherry_pick_branch, ok))
          /\ gitcfg' = set_state(gitcfg, IF ok THEN "PUSHED_TO_REMOTE"
                                         ELSE "PUSHING_TO_REMOTE_FAILED")
          /\ pc' = "publish"
    /\ UNCHANGED <<repo, env, loop, stack, exc, outcome>>

\* push_to_remote: git push; PUSHED_TO_REMOTE on success, and on failure
\* PUSHING_TO_REMOTE_FAILED and a normal return.
GitPush ==
    /\ pc = "git_push"
    /\ \E ok \in BOOLEAN :
          /\ self.dry_run => ok
          /\ ops' = IF self.dry_run THEN ops
                    ELSE Append(ops, Op("push", cherry_pick_branch, ok))
          /\ IF ok
             THEN /\ gitcfg' = set_state(gitcfg, "PUSHED_TO_REMOTE")
                  /\ pc' = "publish"
             ELSE /\ gitcfg' = set_state(gitcfg, "PUSHING_TO_REMOTE_FAILED")
                  /\ pc' = "after_push"
    /\ UNCHANGED <<repo, env, loop, stack, exc, outcome>>

\* A push_to_remote that publishes whatever --auto-pr says.
PublishAlways ==
    /\ pc = "publish"
    /\ IF gh_auth
       THEN /\ gitcfg' = set_state(gitcfg, "PR_CREATING")
            /\ pc' = "create_gh_pr"
       ELSE /\ gitcfg' = set_state(gitcfg, "PR_OPENING")
            /\ pc' = "open_pr"
    /\ UNCHANGED <<repo, env, loop, ops, stack, exc, outcome>>

\* push_to_remote, the else branch of the try: nothing more without auto_pr;
\* PR_CREATING and the API with GH_AUTH; PR_OPENING and the browser without.
Publish ==
    /\ pc = "publish"
    /\ IF ~self.auto_pr
       THEN /\ pc' = "after_push"
            /\ UNCHANGED gitcfg
       ELSE IF gh_auth
       THEN /\ gitcfg' = set_state(gitcfg, "PR_CREATING")
            /\ pc' = "create_gh_pr"
       ELSE /\ gitcfg' = set_state(gitcfg, "PR_OPENING")
            /\ pc' = "open_pr"
    /\ UNCHANGED <<repo, env, loop, ops, stack, exc, outcome>>

\* No caller catches GitHubException.
GitHubExceptionCaughtNowhere == FALSE

\* Only backport wraps push_to_remote in try/except GitHubException.
GitHubExceptionCaught == cmd = "backport"

\* create_gh_pr: the POST to the hosting API (sent in a dry run too).  On
\* GitHubException push_to_remote sets PR_CREATING_FAILED and raises;
\* backport catches it, saves the paused state and raises again;
\* continue_cherry_pick does not catch it.
CreateGhPr ==
    /\ pc = "create_gh_pr"
    /\ \E ok \in BOOLEAN :
          /\ ops' = Append(ops, Op("create_pr", cherry_pick_branch, ok))
          /\ IF ok
             THEN /\ pc' = "after_push"
                  /\ UNCHANGED <<gitcfg, stack, exc, outcome>>
             ELSE /\ gitcfg' = set_state(gitcfg, "PR_CREATING_FAILED")
                  /\ IF GitHubExceptionCaught
                     THEN /\ exc' = "GitHubException"
                          /\ pc' = "set_paused_state"
                          /\ UNCHANGED <<stack, outcome>>
                     ELSE Ends("GitHubException")
    /\ UNCHANGED <<repo, env, loop>>

\* open_pr: the compare URL is opened in the browser (echoed in a dry run).
OpenPr ==
    /\ pc = "open_pr"
    /\ ops' = IF self.dry_run THEN ops
              ELSE Append(ops, Op("open_pr", cherry_pick_branch, TRUE))
    /\ pc' = "after_push"
    /\ UNCHANGED <<gitcfg, repo, env, loop, stack, exc, outcome>>

\* After push_to_remote returned: cleanup_branch unless the clone is a mirror.
AfterPush ==
    /\ pc = "after_push"
    /\ pc' = IF ~mirror THEN "cleanup_branch" ELSE AfterCleanup
    /\ UNCHANGED <<gitcfg, repo, env, loop, ops, stack, exc, outcome>>

\* --------------------------------------------------------- cleanup_branch

\* cleanup_branch: set_state(REMOVING_BACKPORT_BRANCH).
CleanupBranch ==
    /\ pc = "cleanup_branch"
    /\ gitcfg' = set_state(gitcfg, "REMOVING_BACKPORT_BRANCH")
    /\ pc' = "checkout_previous_branch"
    /\ UNCHANGED <<repo, env, loop, ops, stack, exc, outcome>>

\* checkout_previous_branch: set_state(CHECKING_OUT_PREVIOUS_BRANCH); when
\* there is no previous branch to go to it calls checkout_default_branch
\* and returns.
CheckoutPreviousBranchUnless(no_previous_branch) ==
    /\ pc = "checkout_previous_branch"
    /\ gitcfg' = set_state(gitcfg, "CHECKING_OUT_PREVIOUS_BRANCH")
    /\ IF no_previous_branch
       THEN Call("checkout_default_branch", "delete_branch")
       ELSE pc' = "git_checkout_previous" /\ UNCHANGED stack
    /\ UNCHANGED <<repo, env, loop, ops, exc, outcome>>

\* A cleanup that always goes back to the default branch.
CheckoutPreviousBranchIgnored == CheckoutPreviousBranchUnless(TRUE)

\* checkout_previous_branch: the previous branch is the one stored in the
\* Git config, and there is none when the key is not set.
CheckoutPreviousBranch ==
    CheckoutPreviousBranchUnless(load_val_from_git_cfg(gitcfg, "previous_branch") = {})

\* checkout_previous_branch: git checkout <previous branch>, then
\* set_state(CHECKED_OUT_PREVIOUS_BRANCH); cleanup_branch catches the
\* BranchCheckoutException, sets REMOVING_BACKPORT_BRANCH_FAILED and returns.
GitCheckoutPrevious ==
    /\ pc = "git_checkout_previous"
    /\ LET previous_branch == Val(load_val_from_git_cfg(gitcfg, "previous_branch"))
       IN  \E ok \in BOOLEAN :
           /\ self.dry_run => ok
           /\ (ok /\ ~self.dry_run) => previous_branch \in local_branches
           /\ ops' = IF self.dry_run THEN ops
                     ELSE Append(ops, Op("checkout", previous_branch, ok))
           /\ IF ok
              THEN /\ cur' = IF self.dry_run THEN cur ELSE previous_branch
                   /\ gitcfg' = set_state(gitcfg, "CHECKED_OUT_PREVIOUS_BRANCH")
                   /\ pc' = "delete_branch"
              ELSE /\ gitcfg' = set_state(gitcfg, "REMOVING_BACKPORT_BRANCH_FAILED")
                   /\ pc' = AfterCleanup
                   /\ UNCHANGED cur
    /\ UNCHANGED <<local_branches, cherry_pick_head, env, loop, stack, exc, outcome>>

\* A cleanup that reports the branch removed whatever git branch -D did.
DeleteBranchAlwaysRemoved ==
    /\ pc = "delete_branch"
    /\ \E ok \in BOOLEAN :
          /\ self.dry_run => ok
          /\ (ok /\ ~self.dry_run) =>
                (cherry_pick_branch \in local_branches /\ cherry_pick_branch # cur)
          /\ ops' = IF self.dry_run THEN ops
                    ELSE Append(ops, Op("delete", cherry_pick_branch, ok))
          /\ local_branches' = IF ok /\ ~self.dry_run
                               THEN local_branches \ {cherry_pick_branch}
                               ELSE local_branches
          /\ gitcfg' = set_state(gitcfg, "REMOVED_BACKPORT_BRANCH")
    /\ pc' = AfterCleanup
    /\ UNCHANGED <<cur, cherry_pick_head, env, loop, stack, exc, outcome>>

\* cleanup_branch: git branch -D, which cannot delete the checked-out branch;
\* REMOVED_BACKPORT_BRANCH or REMOVING_BACKPORT_BRANCH_FAILED.
DeleteBranch ==
    /\ pc = "delete_branch"
    /\ \E ok \in BOOLEAN :
          /\ self.dry_run => ok
          /\ (ok /\ ~self.dry_run) =>
                (cherry_pick_branch \in local_branches /\ cherry_pick_branch # cur)
          /\ ops' = IF self.dry_run THEN ops
                    ELSE Append(ops, Op("delete", cherry_pick_branch, ok))
          /\ IF ok
             THEN /\ local_branches' = IF self.dry_run THEN local_branches
                                       ELSE local_branches \ {cherry_pick_branch}
                  /\ gitcfg' = set_state(gitcfg, "REMOVED_BACKPORT_BRANCH")
             ELSE /\ gitcfg' = set_state(gitcfg, "REMOVING_BACKPORT_BRANCH_FAILED")
                  /\ UNCHANGED local_branches
    /\ pc' = AfterCleanup
    /\ UNCHANGED <<cur, cherry_pick_head, env, loop, stack, exc, outcome>>

\* ------------------------------------------------- end of loop, the resets

\* Bottom of the loop body: set_state(BACKPORT_LOOP_END); after the last
\* branch backport goes on to the resets.
LoopEnd ==
    /\ pc = "loop_end"
    /\ gitcfg' = set_state(gitcfg, "BACKPORT_LOOP_END")
    /\ idx' = idx + 1
    /\ pc' = IF idx + 1 > Len(todo) THEN "reset_previous_branch" ELSE "loop_start"
    /\ UNCHANGED <<repo, env, todo, maint_branch, cherry_pick_branch, commits, commit_message, ops,
                   stack, exc, outcome>>

\* reset_stored_previous_branch(): the CalledProcessError of a key that is
\* not set propagates.  backport goes on to reset_state, the other two
\* commands to reset_stored_config_ref.
ResetStoredPreviousBranch ==
    /\ pc = "reset_previous_branch"
    /\ IF WipeRaises(gitcfg, "previous_branch")
       THEN /\ Ends("CalledProcessError")
            /\ UNCHANGED gitcfg
       ELSE /\ gitcfg' = wipe_cfg_vals_from_git_cfg(gitcfg, "previous_branch")
            /\ pc' = IF cmd = "backport" THEN "reset_state" ELSE "reset_config_ref"
            /\ UNCHANGED <<stack, exc, outcome>>
    /\ UNCHANGED <<repo, env, loop, ops>>

\* reset_stored_config_ref()
ResetStoredConfigRef ==
    /\ pc = "reset_config_ref"
    /\ gitcfg' = reset_stored_config_ref(gitcfg)
    /\ pc' = "reset_state"
    /\ UNCHANGED <<repo, env, loop, ops, stack, exc, outcome>>

\* reset_state(); the command then returns, or raises the
\* BranchCheckoutException again.
ResetState ==
    /\ pc = "reset_state"
    /\ IF WipeRaises(gitcfg, "state")
       THEN /\ Ends("CalledProcessError")
            /\ UNCHANGED gitcfg
       ELSE /\ gitcfg' = wipe_cfg_vals_from_git_cfg(gitcfg, "state")
            /\ Ends(IF exc # "none" THEN exc ELSE "ok")
    /\ UNCHANGED <<repo, env, loop, ops>>

\* -------------------------------------------------------- get_base_branch

\* s.index(sub): position of the first occurrence of sub in s, 0 when there
\* is none.
FindSub(s, sub) ==
    LET at(i) == i + Len(sub) - 1 <= Len(s) /\ SubSeq(s, i, i + Len(sub) - 1) = sub
    IN  IF \E i \in 1..Len(s) : at(i)
        THEN CHOOSE i \in 1..Len(s) : at(i) /\ \A j \in 1..(i - 1) : ~at(j)
        ELSE 0

\* s[a:b] with the 0-based bounds of Python, a >= 0; a negative b counts
\* from the end.
PySlice(s, a, b) ==
    LET e0 == IF b < 0 THEN Len(s) + b ELSE b
        e == IF e0 < 0 THEN 0 ELSE IF e0 > Len(s) THEN Len(s) ELSE e0
    IN  SubSeq(s, a + 1, e)

\* A tag of the repository whose name starts like the commit.
Tags == {<<"a", "b", "c", "1", "2", "3", "4", "x">>}

\* What git resolves to a commit: CommitSha, its abbreviations of at least
\* four characters, and the names of the tags.
Resolves(sha) == (Len(sha) >= 4 /\ StartsWith(CommitSha, sha)) \/ sha \in Tags

\* re.match("[0-9a-f]{7,40}", sha): anchored at the start only.
ShaLooksValid(sha) == Len(sha) >= 7 /\ \A i \in 1..7 : IsHex(sha[i])

\* get_base_branch splitting at every dash and keeping the last field.
get_base_branch_last_field(name, cfg, git_ok) ==
    LET d1 == FindChar(name, "-", 1)
        d2 == IF d1 = 0 THEN 0 ELSE FindChar(name, "-", d1 + 1)
        last == CHOOSE i \in 0..Len(name) :
                    /\ i = 0 \/ name[i] = "-"
                    /\ \A j \in (i + 1)..Len(name) : name[j] # "-"
        sha == SubSeq(name, d1 + 1, d2 - 1)
        base_branch == SubSeq(name, last + 1, Len(name))
    IN  IF d2 = 0 THEN [raises |-> TRUE, base |-> <<>>, sha |-> <<>>]
        ELSE [raises |-> \/ ~StartsWith(name, backport_prefix)
                         \/ ~ShaLooksValid(sha)
                         \/ ~(git_ok /\ Resolves(sha))
                         \/ compute_version_sort_key(cfg, base_branch).raises,
              base |-> base_branch,
              sha |-> sha]

\* get_base_branch(cherry_pick_branch, config=config); git_ok says whether
\* the git log of validate_sha ran without error.  raises marks ValueError.
get_base_branch(name, cfg, git_ok) ==
    LET d1 == FindChar(name, "-", 1)
        d2 == IF d1 = 0 THEN 0 ELSE FindChar(name, "-", d1 + 1)
        prefix == SubSeq(name, 1, d1 - 1)
        sha == SubSeq(name, d1 + 1, d2 - 1)
        base_branch == SubSeq(name, d2 + 1, Len(name))
    IN  IF d2 = 0 THEN [raises |-> TRUE, base |-> <<>>, sha |-> <<>>]
        ELSE [raises |-> \/ prefix # <<"b", "a", "c", "k", "p", "o", "r", "t">>
                         \/ ~ShaLooksValid(sha)
                         \/ ~(git_ok /\ Resolves(sha))
                         \/ compute_version_sort_key(cfg, base_branch).raises,
              base |-> base_branch,
              sha |-> sha]

\* continue_cherry_pick:
\*   cherry_pick_branch[cherry_pick_branch.index("-") + 1 :
\*                      cherry_pick_branch.index(base) - 1]
ShortShaOf(name, base) ==
    PySlice(name, (FindChar(name, "-", 1) - 1) + 1, (FindSub(name, base) - 1) - 1)

\* The largest number of commits found on a backport branch.
MaxCommits == 2

\* -------------------------------------------------- continue_cherry_pick()

\* A guard that lets every allowed start state continue.
ContinueRefusedNever(v) == v.raises

\* continue_cherry_pick raises ValueError unless get_state_and_verify()
\* returns BACKPORT_PAUSED.
ContinueRefused(v) == v.raises \/ v.state # "BACKPORT_PAUSED"

\* continue_cherry_pick: the state must be BACKPORT_PAUSED, else ValueError;
\* then CONTINUATION_STARTED on a branch that starts with "backport-", and
\* CONTINUATION_FAILED and the resets on any other branch.
ContinueCherryPick ==
    /\ pc = "continue"
    /\ LET v == get_state_and_verify(gitcfg)
       IN  IF ContinueRefused(v)
           THEN /\ Ends("ValueError")
                /\ UNCHANGED <<gitcfg, cherry_pick_branch>>
           ELSE /\ cherry_pick_branch' = cur
                /\ IF StartsWith(cur, backport_prefix)
                   THEN /\ gitcfg' = set_state(gitcfg, "CONTINUATION_STARTED")
                        /\ pc' = "continue_parse"
                   ELSE /\ gitcfg' = set_state(gitcfg, "CONTINUATION_FAILED")
                        /\ pc' = "reset_previous_branch"
                /\ UNCHANGED <<stack, exc, outcome>>
    /\ UNCHANGED <<repo, env, todo, idx, maint_branch, commits, commit_message, ops>>

\* continue_cherry_pick: get_base_branch (ValueError propagates), the short
\* sha cut out of the branch name, get_full_sha_from_short
\* (CalledProcessError propagates) and get_commits_from_backport_branch.
ContinueParse ==
    /\ pc = "continue_parse"
    /\ \E git_ok \in BOOLEAN :
          LET parsed == get_base_branch(cherry_pick_branch, config, git_ok)
              short_sha == ShortShaOf(cherry_pick_branch, parsed.base)
          IN  IF parsed.raises
              THEN /\ Ends("ValueError")
                   /\ UNCHANGED <<maint_branch, commits, commit_message, self>>
              ELSE IF ~Resolves(short_sha)
              THEN /\ Ends("CalledProcessError")
                   /\ UNCHANGED <<maint_branch, commits, commit_message, self>>
              ELSE /\ maint_branch' = parsed.base
                   /\ self' = [self EXCEPT !.commit_sha1 = CommitSha]
                   /\ commits' \in 0..MaxCommits
                   /\ pc' = "get_updated_commit_message"
                   /\ UNCHANGED <<commit_message, stack, exc, outcome>>
    /\ UNCHANGED <<gitcfg, repo, mirror, config, other, ncmds, cmd, gh_auth, start, todo, idx,
                   cherry_pick_branch, ops>>

\* continue_cherry_pick, after the cleanup:
\* set_state(BACKPORTING_CONTINUATION_SUCCEED), then the resets.
ContinuationSucceed ==
    /\ pc = "continuation_succeed"
    /\ gitcfg' = set_state(gitcfg, "BACKPORTING_CONTINUATION_SUCCEED")
    /\ pc' = "reset_previous_branch"
    /\ UNCHANGED <<repo, env, loop, ops, stack, exc, outcome>>

\* ----------------------------------------------------- abort_cherry_pick()

\* A guard that lets every allowed start state abort.
AbortRefusedNever(v) == v.raises

\* abort_cherry_pick raises ValueError unless get_state_and_verify() returns
\* BACKPORT_PAUSED.
AbortRefused(v) == v.raises \/ v.state # "BACKPORT_PAUSED"

\* abort_cherry_pick: the state must be BACKPORT_PAUSED, else ValueError;
\* validate_sha("CHERRY_PICK_HEAD") tells whether a replay is in progress,
\* and then set_state(ABORTING).
AbortCherryPick ==
    /\ pc = "abort"
    /\ LET v == get_state_and_verify(gitcfg)
       IN  IF AbortRefused(v)
           THEN /\ Ends("ValueError")
                /\ UNCHANGED gitcfg
           ELSE /\ IF cherry_pick_head
                   THEN /\ gitcfg' = set_state(gitcfg, "ABORTING")
                        /\ pc' = "git_cherry_pick_abort"
                   ELSE /\ pc' = "abort_cleanup"
                        /\ UNCHANGED gitcfg
                /\ UNCHANGED <<stack, exc, outcome>>
    /\ UNCHANGED <<repo, env, loop, ops>>

\* abort_cherry_pick: git cherry-pick --abort; ABORTED, or ABORTING_FAILED
\* when the command fails.
GitCherryPickAbort ==
    /\ pc = "git_cherry_pick_abort"
    /\ \E ok \in BOOLEAN :
          /\ self.dry_run => ok
          /\ ops' = IF self.dry_run THEN ops ELSE Append(ops, Op("abort", cur, ok))
          /\ IF ok
             THEN /\ cherry_pick_head' = (self.dry_run /\ cherry_pick_head)
                  /\ gitcfg' = set_state(gitcfg, "ABORTED")
             ELSE /\ gitcfg' = set_state(gitcfg, "ABORTING_FAILED")
                  /\ UNCHANGED cherry_pick_head
    /\ pc' = "abort_cleanup"
    /\ UNCHANGED <<cur, local_branches, env, loop, stack, exc, outcome>>

\* abort_cherry_pick: cleanup_branch(get_current_branch()) on a branch that
\* starts with "backport-", then the resets.
AbortCleanup ==
    /\ pc = "abort_cleanup"
    /\ IF StartsWith(cur, backport_prefix)
       THEN /\ cherry_pick_branch' = cur
            /\ pc' = "cleanup_branch"
       ELSE /\ pc' = "reset_previous_branch"
            /\ UNCHANGED cherry_pick_branch
    /\ UNCHANGED <<gitcfg, repo, env, todo, idx, maint_branch, commits, commit_message, ops, stack, exc,
                   outcome>>

\* ----------------------------------------------------------------- status()

\* A status that also wipes the stored state.
StatusWipingState ==
    /\ pc = "status"
    /\ ops' = Append(ops, Op("status", <<>>, TRUE))
    /\ gitcfg' = [gitcfg EXCEPT !.state = {}]
    /\ Ends("ok")
    /\ UNCHANGED <<repo, env, loop>>

\* status: git status.
Status ==
    /\ pc = "status"
    /\ \E ok \in BOOLEAN :
          /\ self.dry_run => ok
          /\ ops' = IF self.dry_run THEN ops ELSE Append(ops, Op("status", <<>>, ok))
          /\ Ends(IF ok THEN "ok" ELSE "CalledProcessError")
    /\ UNCHANGED <<gitcfg, repo, env, loop>>

\* The process exits: nothing of the command outlives it but the Git config
\* and the clone.
Exit ==
    /\ pc = "done"
    /\ pc' = "idle"
    /\ cmd' = "none"
    /\ self' = NoSelf
    /\ gh_auth' = FALSE
    /\ todo' = <<>>
    /\ idx' = 0
    /\ maint_branch' = <<>>
    /\ cherry_pick_branch' = <<>>
    /\ commits' = 0
    /\ commit_message' = <<>>
    /\ outcome' = "none"
    /\ ops' = <<>>
    /\ start' = [gitcfg |-> gitcfg, cur |-> cur]
    /\ UNCHANGED <<gitcfg, repo, mirror, config, other, ncmds, stack, exc>>

\* ------------------------------------------------------------ the operator

\* Between two commands the operator switches to another local branch.
OperatorCheckout ==
    /\ pc = "idle"
    /\ ncmds < MaxCommands
    /\ \E b \in local_branches \ {cur} : cur' = b
    /\ UNCHANGED <<gitcfg, local_branches, cherry_pick_head, env, loop, pc, stack, exc,
                   outcome, ops>>

\* Between two commands the operator resolves the conflict and concludes
\* the replay.
OperatorResolve ==
    /\ pc = "idle"
    /\ ncmds < MaxCommands
    /\ cherry_pick_head
    /\ cherry_pick_head' = FALSE
    /\ UNCHANGED <<gitcfg, cur, local_branches, env, loop, pc, stack, exc, outcome, ops>>

\* ------------------------------------------------------------ specification

Step ==
    \/ Construct
    \/ Backport
    \/ FetchUpstream
    \/ Upstream
    \/ GitFetch
    \/ RememberPreviousBranch
    \/ BackportLooping
    \/ LoopStart
    \/ CheckoutCreate
    \/ CheckoutDefaultBranch
    \/ GitCheckoutDefault
    \/ CherryPick
    \/ GetUpdatedCommitMessage
    \/ Amend
    \/ Commit
    \/ SetPausedState
    \/ SetStatePaused
    \/ PushToRemote
    \/ GitPush
    \/ Publish
    \/ CreateGhPr
    \/ OpenPr
    \/ AfterPush
    \/ CleanupBranch
    \/ CheckoutPreviousBranch
    \/ GitCheckoutPrevious
    \/ DeleteBranch
    \/ LoopEnd
    \/ ResetStoredPreviousBranch
    \/ ResetStoredConfigRef
    \/ ResetState
    \/ ContinueCherryPick
    \/ ContinueParse
    \/ ContinuationSucceed
    \/ AbortCherryPick
    \/ GitCherryPickAbort
    \/ AbortCleanup
    \/ Status
    \/ Exit
    \/ OperatorCheckout
    \/ OperatorResolve

\* Commands run for real (no --dry-run).
Next == StartCommand({FALSE}) \/ Step

Spec == Init /\ [][Next]_vars

\* ------------------------------------------------------------- properties

\* The stored state token, an absent key read as UNSET.
StoredState(cfg) == IF cfg.state = {} THEN "UNSET" ELSE Val(cfg.state)

\* The command was constructed and its method was entered.
Entered(c) ==
    /\ cmd = c
    /\ pc \notin {"idle", "init"}
    /\ ~(pc = "done" /\ outcome = "InvalidRepoException")

\* The command's method returned or raised.
Finished(c) == Entered(c) /\ pc = "done"

\* The operations of kind k logged so far.
OpsOf(k) == {i \in 1..Len(ops) : ops[i].op = k}

\* C1: a command started while the stored state is neither absent/UNSET nor
\* BACKPORT_PAUSED (a known intermediate state or an unknown token) never
\* gets past the constructor: it ends with InvalidRepoException, the store
\* and the checked-out branch are as they were, and no command was invoked.
C1_InvalidStartStateRefused ==
    (cmd # "none" /\ pc # "init"
     /\ StoredState(start.gitcfg) \notin {"UNSET", "BACKPORT_PAUSED"})
    => /\ pc = "done"
       /\ outcome = "InvalidRepoException"
       /\ gitcfg = start.gitcfg
       /\ cur = start.cur
       /\ ops = <<>>

\* Witness of C1: a command refused on a known intermediate state that an
\* earlier command left behind.
C1_Witness ==
    /\ pc = "done"
    /\ cmd \in {"backport", "continue", "abort", "status"}
    /\ outcome = "InvalidRepoException"
    /\ StoredState(start.gitcfg) \in WORKFLOW_STATES \ {"UNSET", "BACKPORT_PAUSED"}

\* C2: when backport, continue_cherry_pick or abort_cherry_pick returns or
\* raises, the stored state is absent/UNSET or BACKPORT_PAUSED.
C2_StatePersistsOnlyPaused ==
    (\E c \in {"backport", "continue", "abort"} : Finished(c))
    => StoredState(gitcfg) \in {"UNSET", "BACKPORT_PAUSED"}

\* C3: once the replay onto a target branch has failed in backport, no
\* further command is invoked (no push, PR, deletion, later branch), and
\* backport ends raising CherryPickException with BACKPORT_PAUSED stored.
C3_ConflictPauses ==
    \A i \in OpsOf("cherry_pick") :
        (cmd = "backport" /\ ~ops[i].ok)
        => /\ i = Len(ops)
           /\ \A j \in 1..Len(ops) :
                 ops[j].arg = ops[i].arg
                 => ops[j].op \notin {"push", "create_pr", "open_pr", "delete"}
           /\ pc \in {"set_paused_state", "set_state_paused", "done"}
           /\ pc = "done" => /\ outcome = "CherryPickException"
                             /\ StoredState(gitcfg) = "BACKPORT_PAUSED"

\* Witness of C3: the replay onto the first of two branches failed and
\* backport has ended.
C3_Witness ==
    /\ Finished("backport")
    /\ Len(todo) = 2
    /\ idx = 1
    /\ \E i \in OpsOf("cherry_pick") : ~ops[i].ok
    /\ StoredState(gitcfg) = "BACKPORT_PAUSED"

\* Every command invoked so far succeeded.
AllOpsOk == \A i \in 1..Len(ops) : ops[i].ok

\* backport returned after the last iteration of its loop, every command
\* having succeeded.
CompletedAllBranches ==
    /\ Finished("backport")
    /\ outcome = "ok"
    /\ AllOpsOk
    /\ Len(todo) > 0
    /\ idx = Len(todo) + 1

\* C4: when backport completes normally after processing every branch, the
\* state, previous_branch and config_path are all absent.
C4_SuccessClearsStore == CompletedAllBranches => gitcfg = EmptyCfg

\* backport is between two iterations of its loop, or past the loop.
BetweenIterations ==
    pc \in {"loop_end", "loop_start", "reset_previous_branch", "reset_state", "done"}

\* The iteration of backport for cherry-pick branch b is over.
IterationOver(b) == b # cherry_pick_branch \/ BetweenIterations

C6_NoPushStopsAfterCommit ==
    \A i \in OpsOf("amend") :
        (cmd = "backport" /\ ~self.push)
        => /\ i = Len(ops)
           /\ \A j \in 1..Len(ops) :
                 ops[j].op \notin {"push", "create_pr", "open_pr", "delete"}
           /\ pc \in {"set_paused_state", "set_state_paused", "done"}
           /\ ops[i].arg = get_cherry_pick_branch(self.commit_sha1, todo[idx])
           /\ cur = ops[i].arg
           /\ ops[i].arg \in local_branches
           /\ AllOpsOk => idx = 1
           /\ pc = "done" => /\ outcome = "ok"
                             /\ StoredState(gitcfg) = "BACKPORT_PAUSED"

\* Witness of C6: --no-push with two targets given in ascending order;
\* backport returned after the commit on the first in sort order (3.10).
C6_Witness ==
    /\ Finished("backport")
    /\ ~self.push
    /\ self.branches = <<b38, b310>>
    /\ idx = 1
    /\ OpsOf("amend") # {}
    /\ cur = get_cherry_pick_branch(CommitSha, b310)
    /\ get_cherry_pick_branch(CommitSha, b38) \notin local_branches

\* C7: backport with no target branch raises UsageError with the store
\* untouched and no command invoked.
C7_NoBranchesUsageError ==
    (Entered("backport") /\ self.branches = <<>>)
    => /\ gitcfg = start.gitcfg
       /\ cur = start.cur
       /\ ops = <<>>
       /\ pc \in {"backport", "done"}
       /\ pc = "done" => outcome = "UsageError"

\* Witness of C7: backport without branches has raised, from the UNSET state.
C7_Witness ==
    /\ Finished("backport")
    /\ self.branches = <<>>
    /\ outcome = "UsageError"
    /\ gitcfg.state = {}

\* C8: continue_cherry_pick entered in a state other than BACKPORT_PAUSED
\* raises ValueError, leaves the store as it was and invokes no command.
C8_ContinueOnlyWhenPaused ==
    (Entered("continue") /\ StoredState(start.gitcfg) # "BACKPORT_PAUSED")
    => /\ gitcfg = start.gitcfg
       /\ cur = start.cur
       /\ ops = <<>>
       /\ pc \in {"continue", "done"}
       /\ pc = "done" => outcome = "ValueError"

\* Witness of C8: continue_cherry_pick has raised from the UNSET state.
C8_Witness ==
    /\ Finished("continue")
    /\ start.gitcfg.state = {}
    /\ outcome = "ValueError"

\* C9: abort_cherry_pick entered in a state other than BACKPORT_PAUSED raises
\* ValueError, leaves the store as it was and invokes no command (no
\* cherry-pick --abort, no checkout, no branch deletion).
C9_AbortOnlyWhenPaused ==
    (Entered("abort") /\ StoredState(start.gitcfg) # "BACKPORT_PAUSED")
    => /\ gitcfg = start.gitcfg
       /\ cur = start.cur
       /\ ops = <<>>
       /\ pc \in {"abort", "done"}
       /\ pc = "done" => outcome = "ValueError"

\* Witness of C9: abort_cherry_pick has raised from the UNSET state.
C9_Witness ==
    /\ Finished("abort")
    /\ start.gitcfg.state = {}
    /\ outcome = "ValueError"

ContinuesBackportBranch ==
    /\ Entered("continue")
    /\ StoredState(start.gitcfg) = "BACKPORT_PAUSED"
    /\ StartsWith(start.cur, backport_prefix)

\* continue_cherry_pick is at its final resets.
AtFinalResets == pc \in {"reset_previous_branch", "reset_config_ref", "reset_state"}

\* C11: continue_cherry_pick on a cherry-pick branch after a pause.  With
\* push enabled it comes to its resets in BACKPORTING_CONTINUATION_SUCCEED
\* and returns with state and breadcrumbs absent.  With push disabled it
\* returns in BACKPORT_PAUSED with previous_branch as it was and a stored
\* config_path still stored, nothing pushed, the branch neither deleted nor
\* left: the start condition of another continue_cherry_pick.
C11_ContinueAfterPause ==
    ContinuesBackportBranch
    => /\ (self.push /\ AtFinalResets)
          => StoredState(gitcfg) = "BACKPORTING_CONTINUATION_SUCCEED"
       /\ (self.push /\ pc = "done" /\ outcome = "ok") => gitcfg = EmptyCfg
       /\ ~self.push
          => /\ OpsOf("push") \cup OpsOf("create_pr") \cup OpsOf("open_pr")
                  \cup OpsOf("delete") = {}
             /\ cur = start.cur
             /\ cur \in local_branches
             /\ gitcfg.previous_branch = start.gitcfg.previous_branch
             /\ start.gitcfg.config_path # {} => gitcfg.config_path # {}
             /\ ~AtFinalResets
             /\ (pc = "done" /\ outcome = "ok")
                => StoredState(gitcfg) = "BACKPORT_PAUSED"

\* Witness of C11, push enabled: the continuation pushed and returned with
\* an empty store.
C11_Witness ==
    /\ ContinuesBackportBranch
    /\ self.push
    /\ pc = "done"
    /\ outcome = "ok"
    /\ \E i \in OpsOf("push") : ops[i].ok
    /\ start.gitcfg.previous_branch # {}
    /\ gitcfg = EmptyCfg

\* continue_cherry_pick got past its guard on a branch that is not of the
\* shape backport-<sha>-<base>: no prefix, or a name that get_base_branch
\* rejects or whose sha git does not resolve.
ContinuesOffShape ==
    /\ Entered("continue")
    /\ StoredState(start.gitcfg) = "BACKPORT_PAUSED"
    /\ \/ ~StartsWith(start.cur, backport_prefix)
       \/ (pc = "done" /\ outcome = "ValueError" /\ maint_branch = <<>>)

\* C12: continue_cherry_pick from BACKPORT_PAUSED on a branch that does not
\* match backport-<sha>-<base> commits, pushes, creates and deletes nothing
\* and ends with the state absent.
C12_ContinueOffShapeClears ==
    ContinuesOffShape
    => /\ ops = <<>>
       /\ cur = start.cur
       /\ pc = "done" => StoredState(gitcfg) = "UNSET"

\* C13: once the creation of the PR through the API has failed in backport
\* after a successful push, nothing else is invoked (no deletion, no later
\* branch); the cherry-pick branch stays, and backport ends raising
\* GitHubException with BACKPORT_PAUSED stored.
C13_PrFailurePauses ==
    \A i \in OpsOf("create_pr") :
        (cmd = "backport" /\ ~ops[i].ok)
        => /\ i = Len(ops)
           /\ i > 1 /\ ops[i - 1] = Op("push", ops[i].arg, TRUE)
           /\ ops[i].arg = get_cherry_pick_branch(self.commit_sha1, todo[idx])
           /\ ops[i].arg \in local_branches
           /\ \A j \in OpsOf("delete") : ops[j].arg # ops[i].arg
           /\ pc \in {"set_paused_state", "set_state_paused", "done"}
           /\ pc = "done" => /\ outcome = "GitHubException"
                             /\ StoredState(gitcfg) = "BACKPORT_PAUSED"

\* Witness of C13: the PR of the first of two branches could not be created
\* and backport has ended.
C13_Witness ==
    /\ Finished("backport")
    /\ Len(todo) = 2
    /\ idx = 1
    /\ \E i \in OpsOf("create_pr") : ~ops[i].ok
    /\ outcome = "GitHubException"
    /\ StoredState(gitcfg) = "BACKPORT_PAUSED"

\* C14: when the push of a cherry-pick branch failed in backport or
\* continue_cherry_pick, no PR is created or opened for it, and when the
\* command has ended the branch still exists locally and (the command
\* having had no other branch to pause on) the state is not BACKPORT_PAUSED.
C14_PushFailureKeepsBranch ==
    \A i \in OpsOf("push") :
        (cmd \in {"backport", "continue"} /\ ~ops[i].ok)
        => /\ \A j \in OpsOf("create_pr") \cup OpsOf("open_pr") :
                 ops[j].arg # ops[i].arg
           /\ pc = "done"
              => /\ ops[i].arg \in local_branches
                 /\ (cmd = "continue" \/ Len(todo) = 1)
                    => StoredState(gitcfg) # "BACKPORT_PAUSED"

\* C15: once git checkout -b of a cherry-pick branch has failed in backport,
\* the only command that follows is the checkout of the default branch;
\* backport ends raising BranchCheckoutException with the state absent,
\* whether or not that checkout succeeded.
C15_CheckoutFailureResets ==
    \A i \in OpsOf("checkout_b") :
        (cmd = "backport" /\ ~ops[i].ok)
        => /\ Len(ops) <= i + 1
           /\ Len(ops) = i + 1
              => (ops[i + 1].op = "checkout" /\ ops[i + 1].arg = config.default_branch)
           /\ ops[i].arg = get_cherry_pick_branch(self.commit_sha1, todo[idx])
           /\ pc = "done" => /\ Len(ops) = i + 1
                             /\ outcome = "BranchCheckoutException"
                             /\ StoredState(gitcfg) = "UNSET"

\* C16: status leaves the stored state, both breadcrumbs and the checked-out
\* branch as they were and invokes nothing but git status.
C16_StatusChangesNothing ==
    Entered("status")
    => /\ gitcfg = start.gitcfg
       /\ cur = start.cur
       /\ \A i \in 1..Len(ops) : ops[i].op = "status"
       /\ StoredState(gitcfg) \in ALLOWED_STATES

\* Witness of C16: status has returned in a paused store with both
\* breadcrumbs.
C16_Witness ==
    /\ Finished("status")
    /\ outcome = "ok"
    /\ ops = <<Op("status", <<>>, TRUE)>>
    /\ StoredState(gitcfg) = "BACKPORT_PAUSED"
    /\ gitcfg.previous_branch # {}
    /\ gitcfg.config_path # {}

\* The positions in the log of the commands run on branch br.
OpsOn(br) == {i \in 1..Len(ops) : ops[i].arg = br}

\* The positions of the successful git checkout -b commands.
Created == {i \in 1..Len(ops) : ops[i].op = "checkout_b" /\ ops[i].ok}

\* Branch br1 is the cherry-pick branch of a target of the command line
\* whose sort key is smaller than that of the target of br2.
CreatedInKeyOrder(br1, br2) ==
    \E a, b \in {self.branches[p] : p \in 1..Len(self.branches)} :
        /\ br1 = get_cherry_pick_branch(self.commit_sha1, a)
        /\ br2 = get_cherry_pick_branch(self.commit_sha1, b)
        /\ KeyLess(compute_version_sort_key(config, a),
                   compute_version_sort_key(config, b))

\* C17: backport works through the targets in the order of their sort keys,
\* whatever the order on the command line: of two cherry-pick branches
\* created in one run, the first is that of the target with the smaller
\* key (looked at when the second has just been created: the log only
\* grows), and every command on it, its replay and its push among them, came
\* before the creation of the second.
C17_ProcessedInSortOrder ==
    Entered("backport")
    => \A i, j \in Created :
          i < j
          => /\ \A k \in OpsOn(ops[i].arg) : k < j
             /\ \E k \in OpsOn(ops[i].arg) : ops[k].op = "cherry_pick" /\ ops[k].ok
             /\ (self.push /\ AllOpsOk)
                => \E k \in OpsOn(ops[i].arg) : ops[k].op = "push" /\ k < j
             /\ Len(ops) = j + 1 => CreatedInKeyOrder(ops[i].arg, ops[j].arg)

\* Witness of C17: 3.8 was named before 3.10 on the command line, and the
\* branch for 3.10 was created, replayed and pushed before the branch for
\* 3.8 was created.
C17_Witness ==
    /\ Entered("backport")
    /\ self.branches = <<b38, b310>>
    /\ self.push
    /\ AllOpsOk
    /\ Cardinality(Created) = 2
    /\ Len(ops) = 2 + CHOOSE j \in Created : \A i \in Created : i <= j
    /\ cur = get_cherry_pick_branch(CommitSha, b38)
    /\ \E k \in OpsOn(get_cherry_pick_branch(CommitSha, b310)) : ops[k].op = "push"

\* ------------------------------------------- sorted_branches on its own

\* Longest list of branch names given to sorted_branches.
MaxSortLen == 3

\* Branch names: with a dotted version (3.8, 3.10 and the four below),
\* without one (dev, main, 3.x10) and the empty name.
n31 == <<"3", ".", "1">>
n36 == <<"3", ".", "6">>
n3101 == <<"3", ".", "1", "0", ".", "1">>
lts27 == <<"l", "t", "s", "-", "2", ".", "7">>
n3x10 == <<"3", ".", "x", "1", "0">>
SortNames == {b38, b310, n31, n36, n3101, lts27, dev, main, n3x10, <<>>}

\* Lists of at most n names of S, each named once.
RECURSIVE ListsOf(_, _)
ListsOf(S, n) ==
    IF n = 0 THEN {<<>>}
    ELSE LET shorter == ListsOf(S, n - 1)
         IN  shorter \cup
             {Append(l, b) : <<l, b>> \in
                  {x \in shorter \X S : \A i \in 1..Len(x[1]) : x[1][i] # x[2]}}

\* A CherryPicker constructed with some branches and either setting of
\* require_version_in_branch_name, before sorted_branches is read.
SortInit ==
    /\ gitcfg = EmptyCfg
    /\ cur = topic
    /\ local_branches = {main, topic}
    /\ cherry_pick_head = FALSE
    /\ mirror = FALSE
    /\ config \in {[DEFAULT_CONFIG EXCEPT !.require_version_in_branch_name = r] :
                      r \in BOOLEAN}
    /\ ncmds = 0
    /\ cmd = "none"
    /\ self \in {[NoSelf EXCEPT !.commit_sha1 = CommitSha, !.branches = l] :
                    l \in ListsOf(SortNames, MaxSortLen)}
    /\ gh_auth = FALSE
    /\ other = NoOther
    /\ pc = "sorted_branches"
    /\ stack = <<>>
    /\ exc = "none"
    /\ todo = <<>>
    /\ idx = 0
    /\ maint_branch = <<>>
    /\ cherry_pick_branch = <<>>
    /\ commits = 0
    /\ commit_message = <<>>
    /\ outcome = "none"
    /\ ops = <<>>
    /\ start = [gitcfg |-> gitcfg, cur |-> cur]

\* The property sorted_branches is read: the sorted list, or ValueError
\* from compute_version_sort_key.
SortedBranches ==
    /\ pc = "sorted_branches"
    /\ IF SortedBranchesRaises(config, self.branches)
       THEN outcome' = "ValueError" /\ UNCHANGED todo
       ELSE outcome' = "ok" /\ todo' = sorted_branches(config, self.branches)
    /\ pc' = "sorted"
    /\ UNCHANGED <<gitcfg, repo, env, idx, maint_branch, cherry_pick_branch, commits, commit_message,
                   ops, stack, exc>>

SortNext == SortedBranches

SortSpec == SortInit /\ [][SortNext]_vars

\* The names of SortNames with a dotted numeric version, and the version
\* each carries as a tuple of integers.
Versioned == {b38, b310, n31, n36, n3101, lts27}
VersionOf(name) ==
    CASE name = b38 -> <<3, 8>>
      [] name = b310 -> <<3, 10>>
      [] name = n31 -> <<3, 1>>
      [] name = n36 -> <<3, 6>>
      [] name = n3101 -> <<3, 10, 1>>
      [] name = lts27 -> <<2, 7>>

\* v is the greater tuple: greater at the first component that differs, or
\* w with further components.
RECURSIVE TupleGreater(_, _)
TupleGreater(v, w) ==
    IF Len(v) = 0 THEN FALSE
    ELSE IF Len(w) = 0 THEN TRUE
    ELSE IF v[1] # w[1] THEN v[1] > w[1]
    ELSE TupleGreater(Tail(v), Tail(w))

\* sorted_branches has returned a list.
Sorted == pc = "sorted" /\ outcome = "ok"

\* C18: of two names with a dotted version in the sorted list, the one with
\* the greater version tuple comes first, the components compared as
\* integers; a version that extends another (3.10.1 and 3.10) is the
\* greater one.
C18_VersionsDescending ==
    Sorted
    => \A p, q \in 1..Len(todo) :
          (todo[p] \in Versioned /\ todo[q] \in Versioned
           /\ TupleGreater(VersionOf(todo[p]), VersionOf(todo[q])))
          => p < q

\* The names of SortNames without a version, in alphabetical order.
Alphabetical == <<n3x10, dev, main>>
AlphaPos(name) == CHOOSE i \in 1..Len(Alphabetical) : Alphabetical[i] = name

\* C19: when versions are not required, every name with a dotted version
\* comes before every name without one in the sorted list, and the names
\* without a version are in alphabetical order.
C19_VersionedFirstThenAlphabetical ==
    (Sorted /\ ~config.require_version_in_branch_name)
    => \A p, q \in 1..Len(todo) :
          /\ (todo[p] \in Versioned /\ todo[q] \notin Versioned) => p < q
          /\ (todo[p] \notin Versioned /\ todo[q] \notin Versioned
              /\ AlphaPos(todo[p]) < AlphaPos(todo[q])) => p < q

\* Witness of C19: main, 3.8, dev sorted to 3.8, dev, main.
C19_Witness ==
    /\ Sorted
    /\ ~config.require_version_in_branch_name
    /\ self.branches = <<main, b38, dev>>
    /\ todo = <<b38, dev, main>>

\* The sort key of this name cannot be computed: no dotted version, and the
\* name is empty or the configuration requires a version.
KeyMustFail(name) ==
    /\ name \notin Versioned
    /\ (name = <<>> \/ config.require_version_in_branch_name)

\* C20: computing the sort keys fails with ValueError exactly when one of
\* the names has no dotted version and is empty or a version is required;
\* so the empty name fails even when no version is required, and a name
\* with a version never fails.
C20_KeyFailsExactlyWhen ==
    pc = "sorted"
    => /\ outcome \in {"ok", "ValueError"}
       /\ outcome = "ValueError"
          <=> \E i \in 1..Len(self.branches) : KeyMustFail(self.branches[i])

\* Witness of C20: the key of the empty name alone was asked for, with no
\* version required, and ValueError was raised.
C20_Witness ==
    /\ pc = "sorted"
    /\ ~config.require_version_in_branch_name
    /\ self.branches = <<<<>>>>
    /\ outcome = "ValueError"

\* -------------------------------------- the cherry-pick branch name alone

\* Target branches: with a version (3.8, 3.10, 3.10.1, lts-2.7 and a-2.7-b
\* with dashes around it), without (dev, main, and back and abc, whose text
\* also occurs in "backport" and in the sha), and the empty name.
dashed27 == <<"a", "-", "2", ".", "7", "-", "b">>
back == <<"b", "a", "c", "k">>
abc == <<"a", "b", "c">>
NameTargets == {b38, b310, n3101, lts27, dashed27, dev, main, back, abc, <<>>}

\* The source commit as given on the command line: the sha or its
\* abbreviation to seven characters.
NameShas == {CommitSha, Take(CommitSha, 7)}

\* Branch names that backport does not create: too few fields, another
\* prefix, a sha field that is too short, not hexadecimal, hexadecimal
\* only at its start (the name of a tag, and not), or unknown to git.
OddNames ==
    {<<"b", "a", "c", "k", "p", "o", "r", "t">>,
     backport_prefix \o <<"a", "b", "c", "1", "2", "3", "4">>,
     <<"p", "r", "e", "f", "i", "x", "-", "a", "b", "c", "1", "2", "3", "4", "-">> \o b38,
     backport_prefix \o <<"a", "b", "c", "1", "2", "3", "-">> \o b38,
     backport_prefix \o <<"x", "y", "z", "1", "2", "3", "4", "-">> \o b38,
     backport_prefix \o <<"a", "b", "c", "1", "2", "3", "4", "x", "-">> \o b38,
     backport_prefix \o <<"a", "b", "c", "1", "2", "3", "4", "y", "-">> \o b38,
     backport_prefix \o <<"f", "f", "f", "1", "2", "3", "4", "-">> \o b38}

\* Either a CherryPicker about to name the cherry-pick branch of its one
\* target, or a branch name about to be parsed.
NameInit ==
    /\ gitcfg = EmptyCfg
    /\ cur = topic
    /\ local_branches = {main, topic}
    /\ cherry_pick_head = FALSE
    /\ mirror = FALSE
    /\ config \in {[DEFAULT_CONFIG EXCEPT !.require_version_in_branch_name = r] :
                      r \in BOOLEAN}
    /\ ncmds = 0
    /\ cmd = "none"
    /\ gh_auth = FALSE
    /\ other = NoOther
    /\ \/ /\ pc = "get_cherry_pick_branch"
          /\ self \in {[NoSelf EXCEPT !.commit_sha1 = s, !.branches = <<t>>] :
                          s \in NameShas, t \in NameTargets}
          /\ cherry_pick_branch = <<>>
       \/ /\ pc = "get_base_branch"
          /\ self = NoSelf
          /\ cherry_pick_branch \in OddNames
    /\ stack = <<>>
    /\ exc = "none"
    /\ todo = <<>>
    /\ idx = 0
    /\ maint_branch = <<>>
    /\ commits = 0
    /\ commit_message = <<>>
    /\ outcome = "none"
    /\ ops = <<>>
    /\ start = [gitcfg |-> gitcfg, cur |-> cur]

\* cherry_pick_branch = self.get_cherry_pick_branch(maint_branch)
GetCherryPickBranch ==
    /\ pc = "get_cherry_pick_branch"
    /\ cherry_pick_branch' = get_cherry_pick_branch(self.commit_sha1, self.branches[1])
    /\ pc' = "get_base_branch"
    /\ UNCHANGED <<gitcfg, repo, env, todo, idx, maint_branch, commits, commit_message, ops, stack, exc,
                   outcome>>

\* base = get_base_branch(cherry_pick_branch, config=self.config): the base
\* branch, or ValueError.  The log tells whether git was able to run.
GetBaseBranch ==
    /\ pc = "get_base_branch"
    /\ \E git_ok \in BOOLEAN :
          LET parsed == get_base_branch(cherry_pick_branch, config, git_ok)
          IN  /\ ops' = Append(ops, Op("validate_sha", parsed.sha, git_ok))
              /\ IF parsed.raises
                 THEN outcome' = "ValueError" /\ UNCHANGED maint_branch
                 ELSE maint_branch' = parsed.base /\ UNCHANGED outcome
    /\ pc' = "parsed"
    /\ UNCHANGED <<gitcfg, repo, env, todo, idx, cherry_pick_branch, commits, commit_message, stack, exc>>

\* continue_cherry_pick: the short sha cut out of the branch name, and
\* self.commit_sha1 = get_full_sha_from_short(short_sha), which raises
\* CalledProcessError when git does not resolve it.
GetFullShaFromShort ==
    /\ pc = "parsed"
    /\ outcome = "none"
    /\ LET short_sha == ShortShaOf(cherry_pick_branch, maint_branch)
       IN  /\ ops' = Append(ops, Op("get_full_sha_from_short", short_sha,
                                    Resolves(short_sha)))
           /\ IF Resolves(short_sha)
              THEN /\ self' = [self EXCEPT !.commit_sha1 = CommitSha]
                   /\ outcome' = "ok"
              ELSE /\ outcome' = "CalledProcessError"
                   /\ UNCHANGED self
    /\ pc' = "resolved"
    /\ UNCHANGED <<gitcfg, repo, mirror, config, other, ncmds, cmd, gh_auth, start, loop, stack,
                   exc>>

NameNext == GetCherryPickBranch \/ GetBaseBranch \/ GetFullShaFromShort

NameSpec == NameInit /\ [][NameNext]_vars

\* ------------------------------------------------------------------ C21

\* The branch name was built by get_cherry_pick_branch and has been parsed.
NamedThenParsed == pc \in {"parsed", "resolved"} /\ self.branches # <<>>

\* C21: a name built from a source commit and a target branch that the
\* branch-name policy accepts, dashes in the target included, parses (git
\* being able to run) without error to exactly that target as base branch.
C21_NameRoundTrip ==
    (/\ NamedThenParsed
     /\ ~compute_version_sort_key(config, self.branches[1]).raises
     /\ ops[1].ok)
        => /\ outcome # "ValueError"
           /\ maint_branch = self.branches[1]

\* A target with dashes on both sides of its version came back whole.
C21_Witness ==
    /\ NamedThenParsed
    /\ self.branches[1] = dashed27
    /\ ops[1].ok
    /\ maint_branch = dashed27

\* ------------------------------------------------------------------ C22

\* The text between the first and the second dash of a name with two dashes.
ShaField(name) ==
    LET d1 == FindChar(name, "-", 1)
    IN  SubSeq(name, d1 + 1, FindChar(name, "-", d1 + 1) - 1)

\* The text after the second dash.
BaseField(name) ==
    SubSeq(name, FindChar(name, "-", FindChar(name, "-", 1) + 1) + 1, Len(name))

\* The name has at least three fields.
ThreeFields(name) ==
    FindChar(name, "-", 1) # 0 /\ FindChar(name, "-", FindChar(name, "-", 1) + 1) # 0

\* 7 to 40 hexadecimal characters and nothing else.
HexOnly(sha) == Len(sha) \in 7..40 /\ \A i \in 1..Len(sha) : IsHex(sha[i])

\* C22: parsing fails with ValueError whenever the name has fewer than
\* three fields, its first field is not "backport", its sha field is not
\* made of 7 to 40 hexadecimal characters only, the sha does not resolve to
\* a commit, or the base-branch suffix fails the branch-name policy.
C22_BadNameRaises ==
    (/\ pc = "parsed"
     /\ \/ ~ThreeFields(cherry_pick_branch)
        \/ SubSeq(cherry_pick_branch, 1, FindChar(cherry_pick_branch, "-", 1) - 1)
              # <<"b", "a", "c", "k", "p", "o", "r", "t">>
        \/ ~HexOnly(ShaField(cherry_pick_branch))
        \/ ~Resolves(ShaField(cherry_pick_branch))
        \/ ~ops[1].ok
        \/ compute_version_sort_key(config, BaseField(cherry_pick_branch)).raises)
        => outcome = "ValueError"

\* ------------------------------------------- the commit message alone

\* Longest message, in pieces.
MaxPieces == 3

\* Pieces of the messages: references with 5, 4 and 6 digits and with a
\* leading zero, a bare number sign, a letter, an underscore, a space, a
\* parenthesis, a digit and a newline.
Pieces ==
    {<<"#", "1", "2", "3", "4", "5">>, <<"#", "1", "2", "3", "4">>,
     <<"#", "0", "1", "2", "3", "4", "5">>, <<"#">>, <<"x">>, <<"_">>, <<" ">>,
     <<"(">>, <<"7">>, <<"\n">>}

RECURSIVE Concat(_)
Concat(l) == IF Len(l) = 0 THEN <<>> ELSE Head(l) \o Concat(Tail(l))

\* What git show can print: up to MaxPieces pieces, one after the other.
RawMessages == {Concat(l) : l \in ListsOf(Pieces, MaxPieces)}

\* A CherryPicker about to read the message of its commit, with
\* fix_commit_msg set or not.
MessageInit ==
    /\ gitcfg = EmptyCfg
    /\ cur = topic
    /\ local_branches = {main, topic}
    /\ cherry_pick_head = FALSE
    /\ mirror = FALSE
    /\ config \in {[DEFAULT_CONFIG EXCEPT !.fix_commit_msg = f] : f \in BOOLEAN}
    /\ ncmds = 0
    /\ cmd = "none"
    /\ self = [NoSelf EXCEPT !.commit_sha1 = CommitSha]
    /\ gh_auth = FALSE
    /\ other = NoOther
    /\ pc = "get_commit_message"
    /\ stack = <<>>
    /\ exc = "none"
    /\ todo = <<>>
    /\ idx = 0
    /\ maint_branch = <<>>
    /\ cherry_pick_branch = <<>>
    /\ commits = 0
    /\ commit_message = <<>>
    /\ outcome = "none"
    /\ ops = <<>>
    /\ start = [gitcfg |-> gitcfg, cur |-> cur]

\* get_commit_message: git show prints raw, or fails and
\* CherryPickException is raised.
GetCommitMessage ==
    /\ pc = "get_commit_message"
    /\ \E raw \in RawMessages, ok \in BOOLEAN :
          /\ ops' = Append(ops, Op("show", raw, ok))
          /\ IF ok
             THEN /\ commit_message' = get_commit_message(config, raw)
                  /\ outcome' = "ok"
             ELSE /\ outcome' = "CherryPickException"
                  /\ UNCHANGED commit_message
    /\ pc' = "got_message"
    /\ UNCHANGED <<gitcfg, repo, env, todo, idx, maint_branch, cherry_pick_branch,
                   commits, stack, exc>>

MessageNext == GetCommitMessage

MessageSpec == MessageInit /\ [][MessageNext]_vars

\* ------------------------------------------------------------------ C23

\* The commit message read: what git show printed, without the white space
\* around it.
ReadMessage == Strip(ops[1].arg)

\* The "#" at position i of s starts a reference to rewrite: the digits
\* that follow it are at least 5, the first is not 0, no word character
\* stands before the "#" and none after the last digit.
Rewritable(s, i) ==
    /\ s[i] = "#"
    /\ i + 1 <= Len(s) /\ IsDigit(s[i + 1])
    /\ LET e == DigitRunEnd(s, i + 1)
       IN  /\ e - i >= 5
           /\ s[i + 1] # "0"
           /\ i = 1 \/ ~IsWord(s[i - 1])
           /\ e = Len(s) \/ ~IsWord(s[e + 1])

\* s with "GH-" in the place of every such "#", the rest as it is.
RECURSIVE Rewritten(_, _)
Rewritten(s, i) ==
    IF i > Len(s) THEN <<>>
    ELSE IF Rewritable(s, i) THEN <<"G", "H", "-">> \o Rewritten(s, i + 1)
    ELSE <<s[i]>> \o Rewritten(s, i + 1)

\* C23: with fix_commit_msg, get_commit_message returns the commit message
\* with "#" replaced by "GH-" exactly in front of a number of at least 5
\* digits that does not start with 0, is not preceded and not followed by
\* a word character, and everything else unchanged; without fix_commit_msg
\* it returns the message unchanged.
C23_NumberSignRewritten ==
    (pc = "got_message" /\ outcome = "ok")
        => commit_message = IF config.fix_commit_msg
                            THEN Rewritten(ReadMessage, 1)
                            ELSE ReadMessage

\* "#12345 #1234" became "GH-12345 #1234".
C23_Witness ==
    /\ pc = "got_message"
    /\ config.fix_commit_msg
    /\ ops[1].arg = <<"#", "1", "2", "3", "4", "5", " ", "#", "1", "2", "3", "4">>
    /\ commit_message = <<"G", "H", "-", "1", "2", "3", "4", "5", " ",
                          "#", "1", "2", "3", "4">>

\* ------------------------------------------------ the config path alone

\* Calls of load_config in one history.
MaxLoads == 3

\* The --config-path values: none, a file without revision, the same file
\* at the revision of the commit, another file without revision.
ConfigPaths ==
    {{}, {[rev |-> {}, file |-> "some.toml"]}, {ExplicitConfigPath},
     {[rev |-> {}, file |-> "other.toml"]}}

\* A clone with an empty store, on the topic branch or on the branch that
\* holds .cherry_picker.toml.
ConfigInit ==
    /\ gitcfg = EmptyCfg
    /\ cur \in {topic, configured}
    /\ local_branches = {main, topic, configured}
    /\ cherry_pick_head = FALSE
    /\ mirror = FALSE
    /\ config = DEFAULT_CONFIG
    /\ ncmds = 0
    /\ cmd = "none"
    /\ self = NoSelf
    /\ gh_auth = FALSE
    /\ other = NoOther
    /\ pc = "idle"
    /\ stack = <<>>
    /\ exc = "none"
    /\ todo = <<>>
    /\ idx = 0
    /\ maint_branch = <<>>
    /\ cherry_pick_branch = <<>>
    /\ commits = 0
    /\ commit_message = <<>>
    /\ outcome = "none"
    /\ ops = <<>>
    /\ start = [gitcfg |-> gitcfg, cur |-> cur]

\* cherry_pick_cli: load_config(config_path) and the CherryPicker built
\* with the chosen path; the command then pauses (set_paused_state), ends
\* with the resets of the store, or ends without touching the store.
LoadConfig ==
    /\ pc = "idle"
    /\ ncmds < MaxLoads
    /\ \E path \in ConfigPaths :
          /\ self' = [NoSelf EXCEPT !.chosen_config_path = load_config(gitcfg, path, cur)]
          /\ ops' = <<Op("load_config", path, TRUE)>>
    /\ ncmds' = ncmds + 1
    /\ start' = [gitcfg |-> gitcfg, cur |-> cur]
    /\ pc' \in {"set_paused_state", "reset_config_ref", "done"}
    /\ UNCHANGED <<gitcfg, repo, mirror, config, other, cmd, gh_auth, loop, stack, exc, outcome>>

\* Between two commands HEAD moves to another branch.
HeadMoves ==
    /\ pc = "idle"
    /\ ncmds < MaxLoads
    /\ \E b \in local_branches \ {cur} : cur' = b
    /\ UNCHANGED <<gitcfg, local_branches, cherry_pick_head, env, loop, pc, stack, exc,
                   outcome, ops>>

ConfigNext ==
    \/ LoadConfig
    \/ SetPausedState
    \/ SetStatePaused
    \/ ResetStoredConfigRef
    \/ ResetState
    \/ Exit
    \/ HeadMoves

ConfigSpec == ConfigInit /\ [][ConfigNext]_vars

\* ------------------------------------------------------------------ C25

\* load_config has just chosen a path in this command.
Loaded == Len(ops) >= 1 /\ ops[1].op = "load_config" /\ pc # "done"

\* The path put at the revision of HEAD when it names none.
AtHead(path) ==
    IF Val(path).rev = {} THEN {[Val(path) EXCEPT !.rev = {start.cur}]} ELSE path

\* C25: with a stored config_path P and no explicit path, the chosen path
\* is P, wherever HEAD is now; an explicit path is chosen whatever is
\* stored; with nothing stored and no explicit path the choice is the
\* conventional file at HEAD, or none when HEAD has no such file.
C25_BreadcrumbChosen ==
    Loaded =>
        LET stored == start.gitcfg.config_path
            given == ops[1].arg
        IN  /\ (given = {} /\ stored # {}) => self.chosen_config_path = stored
            /\ given # {} => self.chosen_config_path = AtHead(given)
            /\ (given = {} /\ stored = {}) =>
                  self.chosen_config_path =
                     IF start.cur = configured
                     THEN {[rev |-> {configured}, file |-> ".cherry_picker.toml"]}
                     ELSE {}

\* A path stored by a pause at another revision is chosen on the branch
\* that has a conventional file of its own.
C25_Witness ==
    /\ Loaded
    /\ ops[1].arg = {}
    /\ start.gitcfg.config_path = {[rev |-> {topic}, file |-> "some.toml"]}
    /\ start.gitcfg.state = {"BACKPORT_PAUSED"}
    /\ cur = configured
    /\ self.chosen_config_path = start.gitcfg.config_path

\* ------------------------------------------------------------------ C24

\* The k-th command of the log is a PR attempt: the API or the browser.
PrAttemptAt(k) == k <= Len(ops) /\ ops[k].op \in {"create_pr", "open_pr"}

\* C24: after a failed push push_to_remote returns in
\* PUSHING_TO_REMOTE_FAILED without a PR attempt; after a push without
\* auto_pr it returns in PUSHED_TO_REMOTE without a PR attempt; with auto_pr
\* and GH_AUTH it calls the API in PR_CREATING, which becomes
\* PR_CREATING_FAILED when the call fails; with auto_pr and no GH_AUTH it
\* opens the URL in PR_OPENING and returns without an error.
C24_PushPublishOutcomes ==
    \A i \in 1..Len(ops) :
       ops[i].op = "push" =>
          LET returned == i = Len(ops) /\ pc = "after_push"
              answered == i + 1 = Len(ops)
          IN  /\ ~ops[i].ok =>
                    /\ ~PrAttemptAt(i + 1)
                    /\ returned => StoredState(gitcfg) = "PUSHING_TO_REMOTE_FAILED"
              /\ (ops[i].ok /\ ~self.auto_pr) =>
                    /\ ~PrAttemptAt(i + 1)
                    /\ returned => StoredState(gitcfg) = "PUSHED_TO_REMOTE"
              /\ (ops[i].ok /\ self.auto_pr /\ gh_auth) =>
                    /\ i = Len(ops) => pc \in {"publish", "create_gh_pr"}
                    /\ (i = Len(ops) /\ pc = "create_gh_pr")
                          => StoredState(gitcfg) = "PR_CREATING"
                    /\ PrAttemptAt(i + 1) => ops[i + 1].op = "create_pr"
                    /\ (answered /\ pc = "after_push")
                          => ops[i + 1].ok /\ StoredState(gitcfg) = "PR_CREATING"
                    /\ (/\ answered /\ ~ops[i + 1].ok
                        /\ pc = "set_paused_state" \/ (pc = "done" /\ cmd = "continue"))
                          => StoredState(gitcfg) = "PR_CREATING_FAILED"
              /\ (ops[i].ok /\ self.auto_pr /\ ~gh_auth) =>
                    /\ i = Len(ops) => pc \in {"publish", "open_pr"}
                    /\ (i = Len(ops) /\ pc = "open_pr")
                          => StoredState(gitcfg) = "PR_OPENING"
                    /\ PrAttemptAt(i + 1) => ops[i + 1].op = "open_pr"
                    /\ (answered /\ pc = "after_push")
                          => /\ StoredState(gitcfg) = "PR_OPENING"
                             /\ ops[i + 1].ok
                             /\ exc = "none" /\ outcome = "none"

\* A push succeeded, no token was there and the URL was opened.
C24_Witness ==
    /\ pc = "after_push"
    /\ Len(ops) >= 2
    /\ ops[Len(ops) - 1].op = "push" /\ ops[Len(ops) - 1].ok
    /\ ops[Len(ops)].op = "open_pr"
    /\ self.auto_pr /\ ~gh_auth
    /\ StoredState(gitcfg) = "PR_OPENING"

\* ------------------------------------------------------------------ C26

\* continue_cherry_pick has ended on a PR creation that failed after its
\* push.
ContinuePrFailed ==
    /\ pc = "done"
    /\ cmd = "continue"
    /\ Len(ops) >= 2
    /\ ops[Len(ops)].op = "create_pr" /\ ~ops[Len(ops)].ok
    /\ ops[Len(ops) - 1].op = "push" /\ ops[Len(ops) - 1].ok

\* C26: when PR creation fails after a successful push in
\* continue_cherry_pick, the command ends as backport does: the stored
\* state is BACKPORT_PAUSED, which a later --continue or --abort accepts,
\* and the cherry-pick branch is kept.
C26_ContinuePrFailurePauses ==
    ContinuePrFailed =>
        /\ StoredState(gitcfg) = "BACKPORT_PAUSED"
        /\ cherry_pick_branch \in local_branches

\* ------------------------------------------------------------------ C27

\* The request that creates the PR has just been posted: push_to_remote
\* returns or raises.
PrPosted ==
    /\ Len(ops) >= 1
    /\ ops[Len(ops)].op = "create_pr"
    /\ pc \in {"after_push", "set_paused_state", "done"}

\* title is the first line of m and body the rest of m without the blank
\* lines that lead it.
TitleAndBodyOf(m, title, body) ==
    /\ \A i \in 1..Len(title) : title[i] # "\n"
    /\ body = <<>> \/ body[1] # "\n"
    /\ \/ m = title /\ body = <<>>
       \/ \E k \in 1..Len(m) : m = title \o [i \in 1..k |-> "\n"] \o body

\* C27: the PR that continue_cherry_pick creates through the API has, like
\* the one of backport, the first line of the rewritten commit message of
\* the source commit and base branch as title and the rest, without
\* leading blank lines, as body.
C27_ContinuePrTitleBody ==
    PrPosted =>
        TitleAndBodyOf(get_updated_commit_message(config, prefix_commit_default,
                                                  CommitSha, maint_branch),
                       PrData.title, PrData.body)

\* ------------------------------------------------------------------ C28

\* C28: for a branch name that the parser accepts, continue_cherry_pick
\* resolves as source commit exactly the sha field of the name, the text
\* between its first and its second dash, also when the text of the base
\* occurs earlier in the name.
C28_ShortShaIsShaField ==
    (pc = "resolved" /\ Len(ops) = 2)
        => ops[2].arg = ShaField(cherry_pick_branch)

\* ------------------------------------------------------------------ C29

\* Positions of the log where a commit was amended or made.
CommitOps == {i \in 1..Len(ops) : ops[i].op \in {"amend", "commit"}}

\* C29: continue_cherry_pick amends only when exactly one commit was added
\* since the base branch; with none or several it does not amend and makes
\* one new commit with the rewritten message; in both cases this is the
\* command that follows the rewriting of the message.
C29_AmendOnlySingleCommit ==
    cmd = "continue" =>
        /\ \A i \in CommitOps :
              /\ ops[i].op = "amend" <=> commits = 1
              /\ i > 1 /\ ops[i - 1].op = "message" /\ ops[i - 1].ok
              /\ (i = Len(ops) /\ pc \in {"push_to_remote", "set_paused_state"}) =>
                    commit_message =
                       get_updated_commit_message(config, prefix_commit_default,
                                                  CommitSha, maint_branch)
        /\ Cardinality(CommitOps) <= 1
        /\ \A i \in 1..(Len(ops) - 1) :
              (ops[i].op = "message" /\ ops[i].ok) => i + 1 \in CommitOps

\* Two commits were found and a new commit was made.
C29_Witness ==
    /\ cmd = "continue"
    /\ commits = 2
    /\ Len(ops) >= 1
    /\ ops[Len(ops)].op = "commit" /\ ops[Len(ops)].ok

\* ------------------------------------------------------------------ C30

PhaseStep(p, s, e) ==
    /\ (pc = p /\ pc' # p) => StoredState(gitcfg) = s
    /\ (pc = p /\ Len(ops') = Len(ops) + 1 /\ ~ops'[Len(ops')].ok)
          => StoredState(gitcfg') # e
    /\ (StoredState(gitcfg') = e /\ StoredState(gitcfg) # e)
          => /\ pc = p
             /\ Len(ops') = Len(ops) + 1
             /\ ops'[Len(ops')].ok

\* C31: in fetch_upstream, checkout_default_branch and
\* checkout_previous_branch (with a previous branch stored) the start state
\* is the stored state while the git command runs, and the end state is
\* written only after the command succeeded, never when it failed.
C31_StartEndStates ==
    [][/\ PhaseStep("git_fetch", "FETCHING_UPSTREAM", "FETCHED_UPSTREAM")
       /\ PhaseStep("git_checkout_default", "CHECKING_OUT_DEFAULT_BRANCH",
                    "CHECKED_OUT_DEFAULT_BRANCH")
       /\ PhaseStep("git_checkout_previous", "CHECKING_OUT_PREVIOUS_BRANCH",
                    "CHECKED_OUT_PREVIOUS_BRANCH")]_vars

\* The previous branch was checked out and its end state written.
C31_Witness ==
    /\ pc = "delete_branch"
    /\ StoredState(gitcfg) = "CHECKED_OUT_PREVIOUS_BRANCH"
    /\ ops[Len(ops)].op = "checkout" /\ ops[Len(ops)].ok
    /\ cur = start.cur

\* ------------------------------------------------- cleanup_branch alone

\* The backport branch that is cleaned up.
CleanedBranch == get_cherry_pick_branch(CommitSha, b38)

\* A command about to call cleanup_branch on the checked-out backport
\* branch: the store holds a previous branch that exists (topic, main), one
\* that does not (dev), or none; the default branch exists locally or not.
CleanupInit ==
    /\ gitcfg \in {[EmptyCfg EXCEPT !.state = {s}, !.previous_branch = p] :
                      s \in {"PUSHED_TO_REMOTE", "PR_OPENING", "ABORTED"},
                      p \in {{}, {topic}, {main}, {dev}}}
    /\ cur = CleanedBranch
    /\ local_branches \in {{main, topic, CleanedBranch}, {topic, CleanedBranch}}
    /\ cherry_pick_head = FALSE
    /\ mirror = FALSE
    /\ config = DEFAULT_CONFIG
    /\ ncmds = 1
    /\ cmd \in {"backport", "continue", "abort"}
    /\ self = [NoSelf EXCEPT !.commit_sha1 = CommitSha]
    /\ gh_auth = FALSE
    /\ other = NoOther
    /\ pc = "cleanup_branch"
    /\ stack = <<>>
    /\ exc = "none"
    /\ todo = <<b38>>
    /\ idx = 1
    /\ maint_branch = b38
    /\ cherry_pick_branch = CleanedBranch
    /\ commits = 0
    /\ commit_message = <<>>
    /\ outcome = "none"
    /\ ops = <<>>
    /\ start = [gitcfg |-> gitcfg, cur |-> cur]

CleanupNext ==
    \/ CleanupBranch
    \/ CheckoutPreviousBranch
    \/ CheckoutDefaultBranch
    \/ GitCheckoutDefault
    \/ GitCheckoutPrevious
    \/ DeleteBranch

CleanupSpec == CleanupInit /\ [][CleanupNext]_vars

\* ------------------------------------------------------------------ C32

\* cleanup_branch has returned to its caller.
CleanupReturned == pc = AfterCleanup

\* The branch cleanup_branch has to switch to.
SwitchTarget ==
    IF start.gitcfg.previous_branch = {} THEN config.default_branch
    ELSE Val(start.gitcfg.previous_branch)

StoreLockedWhileRunning == pc \notin {"init", "idle", "done"}

\* The Git config has no lock: set_state, save_cfg_vals_to_git_cfg and
\* wipe_cfg_vals_from_git_cfg run git config at once, whoever else runs.
StoreLocked == FALSE

\* The first process is `cherry_picker abc12345 3.8` about to be
\* constructed; the second, `cherry_picker abc12345 dev`, is started on the
\* same clone at the same time.
ConcInit ==
    /\ gitcfg = EmptyCfg
    /\ cur = topic
    /\ local_branches = {main, topic}
    /\ cherry_pick_head = FALSE
    /\ mirror = FALSE
    /\ config = DEFAULT_CONFIG
    /\ ncmds = MaxCommands
    /\ cmd = "backport"
    /\ self \in {s \in Selves("backport", {FALSE}) : s.branches = <<b38>>}
    /\ gh_auth \in {g \in BOOLEAN : g => (self.push /\ self.auto_pr)}
    /\ other = "init"
    /\ pc = "init"
    /\ stack = <<>>
    /\ exc = "none"
    /\ todo = <<>>
    /\ idx = 0
    /\ maint_branch = <<>>
    /\ cherry_pick_branch = <<>>
    /\ commits = 0
    /\ commit_message = <<>>
    /\ outcome = "none"
    /\ ops = <<>>
    /\ start = [gitcfg |-> gitcfg, cur |-> cur]

\* A step of the second process that changes the store only.
OtherWrites(from, cfg, to) ==
    /\ other = from
    /\ ~StoreLocked
    /\ gitcfg' = cfg
    /\ other' = to
    /\ UNCHANGED <<repo, mirror, config, ncmds, cmd, self, gh_auth, start, loop, pc, stack,
                   exc, outcome, ops>>

\* Second process, CherryPicker.__init__ / check_repo: refused unless the
\* stored state is an allowed start state.
OtherConstruct ==
    OtherWrites("init", gitcfg,
                IF get_state_and_verify(gitcfg).raises THEN "refused" ELSE "backport")

\* Second process, backport: set_state(BACKPORT_STARTING).
OtherBackport ==
    OtherWrites("backport", set_state(gitcfg, "BACKPORT_STARTING"), "fetch_upstream")

\* Second process, fetch_upstream: set_state(FETCHING_UPSTREAM).
OtherFetchUpstream ==
    OtherWrites("fetch_upstream", set_state(gitcfg, "FETCHING_UPSTREAM"), "git_fetch")

\* Second process, fetch_upstream: git fetch, then
\* set_state(FETCHED_UPSTREAM); a failure ends the process.
OtherGitFetch ==
    \/ OtherWrites("git_fetch", set_state(gitcfg, "FETCHED_UPSTREAM"),
                   "remember_previous_branch")
    \/ OtherWrites("git_fetch", gitcfg, "ended")

\* Second process, remember_previous_branch: the branch checked out now
\* goes into the Git config.
OtherRememberPreviousBranch ==
    OtherWrites("remember_previous_branch",
                save_cfg_vals_to_git_cfg(gitcfg, "previous_branch", cur), "looping")

\* Second process, backport: set_state(BACKPORT_LOOPING), then
\* sorted_branches raises ValueError for dev, which has no version.
OtherBackportLooping ==
    /\ SortedBranchesRaises(config, <<dev>>)
    /\ OtherWrites("looping", set_state(gitcfg, "BACKPORT_LOOPING"), "ended")

OtherStep ==
    \/ OtherConstruct
    \/ OtherBackport
    \/ OtherFetchUpstream
    \/ OtherGitFetch
    \/ OtherRememberPreviousBranch
    \/ OtherBackportLooping

ConcNext ==
    \/ Construct
    \/ Backport
    \/ FetchUpstream
    \/ Upstream
    \/ GitFetch
    \/ RememberPreviousBranch
    \/ BackportLooping
    \/ LoopStart
    \/ CheckoutCreate
    \/ CheckoutDefaultBranch
    \/ GitCheckoutDefault
    \/ CherryPick
    \/ GetUpdatedCommitMessage
    \/ Amend
    \/ SetPausedState
    \/ SetStatePaused
    \/ PushToRemote
    \/ GitPush
    \/ Publish
    \/ CreateGhPr
    \/ OpenPr
    \/ AfterPush
    \/ CleanupBranch
    \/ CheckoutPreviousBranch
    \/ GitCheckoutPrevious
    \/ DeleteBranch
    \/ LoopEnd
    \/ ResetStoredPreviousBranch
    \/ ResetStoredConfigRef
    \/ ResetState
    \/ OtherConstruct
    \/ OtherBackport
    \/ OtherFetchUpstream
    \/ OtherGitFetch
    \/ OtherRememberPreviousBranch
    \/ OtherBackportLooping

ConcSpec == ConcInit /\ [][ConcNext]_vars

\* ------------------------------------------------------------------ C33

\* The second process is about to write the store or to end.
OtherRunning ==
    other \in {"init", "backport", "fetch_upstream", "git_fetch",
               "remember_previous_branch", "looping"}

\* C33: no lock protects the store: wherever the first process stands, the
\* next step of the second process, writes of the state and of
\* previous_branch included, can be taken at once.  (The state this leads
\* to is the one of C33_Witness.)
C33_NoLockOnStore == OtherRunning => ENABLED OtherStep

\* The first process has paused on a conflict, and the store holds what
\* the second process wrote after that: BACKPORT_LOOPING instead of
\* BACKPORT_PAUSED, and as previous branch the cherry-pick branch of the
\* first process instead of the branch it started from.
C33_Witness ==
    /\ pc = "done"
    /\ outcome = "CherryPickException"
    /\ cur = cherry_pick_branch
    /\ other = "ended"
    /\ StoredState(gitcfg) = "BACKPORT_LOOPING"
    /\ gitcfg.previous_branch = {cherry_pick_branch}
    /\ start.cur = topic

\* ------------------------------------------------------------------ C34

\* A backport command started while the store held BACKPORT_PAUSED.
StartedWhilePaused ==
    /\ cmd = "backport"
    /\ pc # "idle"
    /\ StoredState(start.gitcfg) = "BACKPORT_PAUSED"

\* C34: a backport command started while the stored state is
\* BACKPORT_PAUSED begins no new operation: it does not fetch, it leaves
\* the previous_branch breadcrumb as it was, and it creates no cherry-pick
\* branch.
C34_AtMostOneInFlight ==
    StartedWhilePaused =>
        /\ OpsOf("fetch") = {}
        /\ gitcfg.previous_branch = start.gitcfg.previous_branch
        /\ OpsOf("checkout_b") = {}

\* ------------------------------------------------------------------ C35

\* In backport, the i-th command is a rewrite of the commit message that
\* failed with CalledProcessError (a failure with CherryPickException
\* pauses and one with ValueError leaves the command, each with that
\* exception).
MessageCrashed(i) ==
    /\ cmd = "backport"
    /\ pc # "idle"
    /\ ops[i].op = "message"
    /\ ~ops[i].ok
    /\ ~(/\ i = Len(ops)
         /\ \/ exc = "CherryPickException"
            \/ pc = "done" /\ outcome \in {"CherryPickException", "ValueError"})

EndedPaused ==
    /\ pc = "done"
    /\ cmd \in {"backport", "continue"}
    /\ StoredState(gitcfg) = "BACKPORT_PAUSED"

\* The command did something: it ran a command or wrote the store (it was
\* not refused by check_repo or for an empty branch list).
Acted == ops # <<>> \/ gitcfg # start.gitcfg

MutatingOps ==
    {"checkout", "checkout_b", "unset_upstream", "cherry_pick", "amend",
     "commit", "abort", "delete"}

\* The command has changed the working copy or a breadcrumb.
Mutated ==
    \/ \E i \in 1..Len(ops) :
          ops[i].op \in MutatingOps /\ (ops[i].ok \/ ops[i].op = "cherry_pick")
    \/ gitcfg.previous_branch # start.gitcfg.previous_branch
    \/ gitcfg.config_path # start.gitcfg.config_path

\* C37: inside backport, continue_cherry_pick and abort_cherry_pick, from
\* the first change of the working copy or of a breadcrumb up to the last
\* write of the state, the stored state is neither UNSET nor
\* BACKPORT_PAUSED, so that a crash there is refused by the next command.
C37_CrashDetectable ==
    (/\ cmd \in {"backport", "continue", "abort"}
     /\ pc \notin {"idle", "init", "done"}
     /\ Mutated)
        => StoredState(gitcfg) \notin {"UNSET", "BACKPORT_PAUSED"}

\* ------------------------------------------------------------------ C38

\* C38: whenever backport or continue_cherry_pick ends with the state
\* BACKPORT_PAUSED, previous_branch is present in the store and names a
\* local branch; and an abort_cherry_pick or continue_cherry_pick that
\* comes to remove it finds it there (git config --unset does not fail).
C38_PausedKeepsPreviousBranch ==
    /\ EndedPaused =>
          /\ gitcfg.previous_branch # {}
          /\ gitcfg.previous_branch \subseteq local_branches
    /\ (cmd \in {"abort", "continue"} /\ pc = "reset_previous_branch")
          => ~WipeRaises(gitcfg, "previous_branch")

\* A paused backport, resumed with --no-push, has paused again with the
\* breadcrumb of the first command still in the store.
C38_Witness ==
    /\ EndedPaused
    /\ cmd = "continue"
    /\ Acted
    /\ StoredState(start.gitcfg) = "BACKPORT_PAUSED"
    /\ gitcfg.previous_branch = {topic}
    /\ cur # topic

\* ------------------------------------------------------------------ C39

\* A backport command with a target branch the version sort rejects.
RejectedBranchGiven ==
    /\ cmd = "backport"
    /\ pc \notin {"idle", "init"}
    /\ SortedBranchesRaises(config, self.branches)

\* C39: a backport with a target branch name that the version sort rejects
\* raises ValueError before the state or a breadcrumb is written and
\* before any Git command is run.
C39_RejectedBeforeAnyEffect ==
    RejectedBranchGiven =>
        /\ gitcfg = start.gitcfg
        /\ ops = <<>>
        /\ pc = "done" => outcome \in {"ValueError", "InvalidRepoException"}

\* ------------------------------------------------- commands with --dry-run

\* The command line with and without --dry-run: a dry run of
\* continue_cherry_pick needs a pause that a real backport left.
DryNext == StartCommand(BOOLEAN) \/ Step

DrySpec == Init /\ [][DryNext]_vars

\* ------------------------------------------------------------------ C40

\* backport or continue_cherry_pick is running, or has ended, with --dry-run.
DryRunning ==
    /\ cmd \in {"backport", "continue"}
    /\ pc \notin {"idle", "init"}
    /\ self.dry_run

\* C40: with --dry-run, backport and continue_cherry_pick run no command
\* that changes the working copy or the remote (checkout, cherry-pick,
\* commit, push, branch deletion), and the state and the breadcrumbs in
\* the store stay as they were when the command started, with --push and
\* with --no-push.
C40_DryRunChangesNothing ==
    DryRunning =>
        /\ \A i \in 1..Len(ops) : ops[i].op \notin MutatingOps \cup {"push"}
        /\ gitcfg = start.gitcfg

====
